---------------------------- MODULE Spec2Model ----------------------------
(***************************************************************************)
(* Verification model of cf_ai_code_compass: the SessionDurableObject      *)
(* (durable-object.ts), the router endpoints that drive it (router.ts),    *)
(* the turn orchestrator runAgentWorkflow (agent.ts) and the paginated     *)
(* ingestion ingestRepository (vectorize.ts).                              *)
(***************************************************************************)
EXTENDS Integers, Sequences, FiniteSets, TLC

(***************************************************************************)
(* Bounds of the model.                                                    *)
(***************************************************************************)
MaxTurns == 2        \* client messages (realtime events and chat requests) per run
MaxEvents == 1       \* text and voice events per run of the channel specification
MaxSteps == 1        \* reasoning_step events one turn forwards to its channel
MaxDrift == 1        \* millisecond ticks of the clock next to midnight of each day
MaxTree == 2         \* entries of a repository's recursive file listing
MaxBatch == 2        \* the largest batch size a caller of ingest asks for
MaxIngestCalls == 4  \* ingest calls of one run
MaxApiCalls == 1     \* requests to /api/ingest
MaxRuns == 2         \* ingestion runs over the same repository
MaxToolCalls == 2    \* tool calls in one response of the model
MaxCards == 6        \* flashcards in one response of the model
MaxMatches == 5      \* vectors of a repository that the index ranks for a query
MaxLines == 3        \* lines of a text that is chunked
MaxRepo == 4         \* entries of the listing of a repository the loop of /api/analyze ingests
MaxSends == 2         \* messages the user of the client sends
MaxChunks == 6        \* chunks of the file storeFileEmbeddings works on
MaxBody == 2         \* characters of a line between its leading and trailing blanks

(***************************************************************************)
(* Program constants.                                                      *)
(***************************************************************************)
MAX_AGE == 86400000  \* maxAge = 24 * 60 * 60 * 1000 in alarm()
DEFAULT_MAX_REPO_FILES == 50  \* parseInt(env.MAX_REPO_FILES || '50', 10) in ingestRepository
DEFAULT_BATCH_SIZE == 3  \* batchSize of ingestRepository, and what the loop of /api/analyze passes
SUBREQUEST_LIMIT == 50  \* the subrequest limit per request storeFileEmbeddings names
MAX_RECONNECTS == 5  \* reconnectAttempts < 5 in the client's onclose
BASE_DELAY == 1000  \* 1000 * Math.pow(2, reconnectAttempts)
MAX_DELAY == 10000  \* Math.min(..., 10000)
PREVIEW_LENGTH == 200  \* contentPreview: chunk.substring(0, 200)
CHUNK_BATCH_SIZE == 5  \* CHUNK_BATCH_SIZE in storeFileEmbeddings

VARIABLES
    storage,   \* the actor's durable key-value store: {} or {session stored under 'session'}
    now,       \* Date.now()
    sessions,  \* the actor's Map of accepted connections (its key set)
    sock,      \* per connection: "new", "open", "errored" or "closed" (the server side WebSocket)
    out,       \* per connection: the events the server has sent on it, in order
    turn,      \* per client message: the in-flight handler (its position and locals)
    resp,      \* the last HTTP response the actor or the router returned
    persisted  \* history: the turns whose final write reached the current session

sessionVars == <<storage, now, sessions, sock, out, turn, resp, persisted>>

VARIABLES
    tree,          \* the repository's recursive file listing, as GitHub returns it
    MAX_REPO_FILES,\* env.MAX_REPO_FILES
    startIndex,    \* the cursor the caller passes to the next ingest call
    ingestCalls,   \* ingest calls made in this run
    lastResult,    \* what the last ingest call returned
    visits,        \* history: per tree entry, the calls whose slice held it
    failedFetches, \* history: the tree entries whose content fetch failed
    totalFiles,    \* the caller's sum of stats.filesProcessed
    index,         \* the ids of the vectors the Vectorize index holds
    upserts,       \* history: per tree entry, the upserts that stored its vectors
    run,           \* the number of the ingestion run
    call,          \* history: the startIndex and batchSize of the last call
    subrequests    \* the outbound calls the present request context has issued

ingestVars == <<tree, MAX_REPO_FILES, startIndex, ingestCalls, lastResult,
                visits, failedFetches, totalFiles, index, upserts, run, call, subrequests>>

VARIABLES
    apc,           \* where runAgentWorkflow stands
    tool_calls,    \* response.tool_calls of the first model call
    handlers,      \* per tool call: "pending", "running" or "settled"
    socketOpen,    \* whether the channel of the turn still takes a send
    delivered,     \* the steps onReasoningStep has sent, in order
    agentResponse  \* the messages runAgentWorkflow has returned (at most one)

agentVars == <<apc, tool_calls, handlers, socketOpen, delivered, agentResponse>>

VARIABLES
    aiOutcome,     \* what env.AI.run does in the generate_flashcards handler
    flashcards,    \* what generateFlashcards returned, once it has
    search,        \* the arguments of a semantic search and what its upstream calls do
    searchResult,  \* what semanticSearch returned, once it has
    chunkInput,    \* the arguments of a call of chunkText: the lines of the text, the cap
    chunks         \* what chunkText returned, once it has

toolVars == <<aiOutcome, flashcards, search, searchResult, chunkInput, chunks>>

VARIABLES
    swept          \* history: what the last call of alarm() found and did

sweepVars == <<swept>>

VARIABLES
    sessionId,           \* the browser client: its sessionId state, "none" until an analysis succeeds
    mounted,             \* whether the App component is mounted
    reconnectAttempts,   \* its reconnectAttempts state
    websocket,           \* every WebSocket the effect has created, in order; websocket.current is the last
    timers,              \* every reconnect timer onclose has set, in order
    reconnectTimeoutRef, \* the timer reconnectTimeoutRef.current holds (0: none)
    isLoading,           \* its isLoading state
    http,                \* requests of the HTTP fallback that have not returned
    sends,               \* history: the messages the user has sent
    reported             \* history: the errors setError was called with

clientVars == <<sessionId, mounted, reconnectAttempts, websocket, timers,
                reconnectTimeoutRef, isLoading, http, sends, reported>>

VARIABLES
    storeInput,    \* a file storeFileEmbeddings works on: its chunks and what its upstream calls do
    storeResult    \* what the file's pass through storeFileEmbeddings did, once it has

storeVars == <<storeInput, storeResult>>

ConnIds == {"c1", "c2"}   \* the realtime channels a run may accept
TurnIds == 1..MaxTurns

(***************************************************************************)
(* Inputs.                                                                 *)
(***************************************************************************)
SessionIds == {"s1"}
RepoUrls   == {"github.com/o/r1", "github.com/o/r2"}
Goals      == {"g1", "g2"}

\* Utterances, as the words that split(' ') yields.
UserTexts == { <<"what", "is", "middleware">>, <<"Help">>, <<"confused">> }
\* What the hosted model answers, and what runAgentWorkflow returns when it fails.
ModelReply == <<"consider", "routing">>
Apology    == <<"I", "encountered", "an", "error">>
AgentReplies == {ModelReply, Apology}


(***************************************************************************)
(* Small helpers.                                                          *)
(***************************************************************************)
Max(a, b) == IF a >= b THEN a ELSE b

\* Array.prototype.slice(-n): the last n elements.
LastN(s, n) == SubSeq(s, Max(1, Len(s) - n + 1), Len(s))

\* The words of recentMessages.map(m => m.content).join(' ').split(' ').
RECURSIVE ContextWords(_)
ContextWords(msgs) ==
    IF msgs = <<>> THEN <<>>
    ELSE Head(msgs).content \o ContextWords(Tail(msgs))

\* String.prototype.toLowerCase on the vocabulary of the model.
toLowerCase(w) == IF w = "Help" THEN "help" ELSE IF w = "PY" THEN "py" ELSE w

\* struggleIndicators.some(indicator => message.toLowerCase().includes(indicator)).
\* On the vocabulary of the model a word contains a one-word indicator exactly
\* when it is that indicator, and "don't know" needs its two words in a row.
struggleIndicators == {"confused", "unclear", "help", "stuck"}
HasStruggleIndicator(text) ==
    \/ \E i \in 1..Len(text) : toLowerCase(text[i]) \in struggleIndicators
    \/ \E i \in 1..(Len(text) - 1) :
          toLowerCase(text[i]) = "don't" /\ toLowerCase(text[i + 1]) = "know"

IsLongWord(w) == Len(w) > 6
includes(seq, x) == \E i \in 1..Len(seq) : seq[i] = x

\* The struggle heuristic of handleTextInput, applied to the session that
\* already holds the user message and the reply.
TrackStruggle(session, text) ==
    IF HasStruggleIndicator(text)
    THEN LET words == SelectSeq(ContextWords(LastN(session.messages, 5)), IsLongWord)
         IN  IF Len(words) > 0 /\ ~includes(session.userStruggles, words[1])
             THEN [session EXCEPT !.userStruggles = Append(@, words[1])]
             ELSE session
    ELSE session

(***************************************************************************)
(* The stored session and the three state handlers of the actor.           *)
(***************************************************************************)
HasSession == storage # {}
Stored == CHOOSE s \in storage : TRUE

InitBodies == [sessionId : SessionIds, repoUrl : RepoUrls, goal : Goals]

\* A slip in that literal: the goal is read from the wrong field of the body.
NewSessionWrongGoal(body, t) ==
    [id |-> body.sessionId, repoUrl |-> body.repoUrl, goal |-> body.repoUrl,
     messages |-> <<>>, userStruggles |-> <<>>, createdAt |-> t, lastActivityAt |-> t]

\* The SessionState literal handleInit builds.
NewSession(body, t) ==
    [id |-> body.sessionId, repoUrl |-> body.repoUrl, goal |-> body.goal,
     messages |-> <<>>, userStruggles |-> <<>>, createdAt |-> t, lastActivityAt |-> t]

\* The spreads in the wrong order, { ...updates, ...session, ... }: stored fields win.
MergeSessionWins(session, updates, t) ==
    [f \in (DOMAIN session \cup DOMAIN updates) \cup {"lastActivityAt"} |->
        IF f = "lastActivityAt" THEN t
        ELSE IF f \in DOMAIN session THEN session[f]
        ELSE updates[f]]

\* The timestamp spread first, { ...session, lastActivityAt: Date.now(), ...updates }:
\* a lastActivityAt the update carries wins.
MergeUpdateWins(session, updates, t) ==
    [f \in (DOMAIN session \cup DOMAIN updates) \cup {"lastActivityAt"} |->
        IF f \in DOMAIN updates THEN updates[f]
        ELSE IF f = "lastActivityAt" THEN t
        ELSE session[f]]

\* { ...session, ...updates, lastActivityAt: Date.now() }
MergeUpdate(session, updates, t) ==
    [f \in (DOMAIN session \cup DOMAIN updates) \cup {"lastActivityAt"} |->
        IF f = "lastActivityAt" THEN t
        ELSE IF f \in DOMAIN updates THEN updates[f]
        ELSE session[f]]

\* The response of handleGetState for a store st.
GetStateResponse(st) ==
    IF st = {} THEN [status |-> 404, body |-> {}] ELSE [status |-> 200, body |-> st]


\* The update bodies the router posts to /update besides the chat turn's:
\* { analysis }, { flashcards } and { studyPlan, flashcards }.
RouterUpdates ==
    { [analysis |-> "analysis1"],
      [flashcards |-> "cards1"],
      [studyPlan |-> "plan1", flashcards |-> "cards2"] }

Response(op, status) == [op |-> op, status |-> status]

\* POST /init
handleInit(body) ==
    /\ storage' = {NewSession(body, now)}
    /\ resp' = Response("init", 200)
    /\ persisted' = {}
    /\ UNCHANGED <<now, sessions, sock, out, turn>>
    /\ UNCHANGED <<ingestVars, agentVars, toolVars, sweepVars, clientVars, storeVars>>

\* handleUpdate without its not-found return: it stores what the update carries.
UpsertedStorage(st, updates, t) ==
    IF st = {} THEN {[f \in DOMAIN updates \cup {"lastActivityAt"} |->
                        IF f = "lastActivityAt" THEN t ELSE updates[f]]}
    ELSE {MergeUpdate(CHOOSE s \in st : TRUE, updates, t)}

\* What handleUpdate leaves in the store, and the status it answers with.
UpdatedStorage(st, updates, t) ==
    IF st = {} THEN st
    ELSE {MergeUpdate(CHOOSE s \in st : TRUE, updates, t)}

UpdateStatus(st) == IF st = {} THEN 404 ELSE 200

\* POST /update
handleUpdate(updates) ==
    /\ storage' = UpdatedStorage(storage, updates, now)
    /\ resp' = Response("update", UpdateStatus(storage))
    /\ UNCHANGED <<now, sessions, sock, out, turn, persisted>>
    /\ UNCHANGED <<ingestVars, agentVars, toolVars, sweepVars, clientVars, storeVars>>

\* GET /state
handleGetState ==
    /\ resp' = Response("state", GetStateResponse(storage).status)
    /\ UNCHANGED <<storage, now, sessions, sock, out, turn, persisted>>
    /\ UNCHANGED <<ingestVars, agentVars, toolVars, sweepVars, clientVars, storeVars>>

\* What a call of alarm() met: whether a session was stored, its age, and
\* whether the call deleted the storage.
NeverSwept == [fired |-> FALSE, session |-> FALSE, age |-> 0, deleted |-> FALSE]
Sweep(session, age, deleted) ==
    [fired |-> TRUE, session |-> session, age |-> age, deleted |-> deleted]
Age == IF HasSession THEN now - Stored.lastActivityAt ELSE 0

\* The sweep with an inclusive test: age >= maxAge.
alarmInclusive ==
    /\ storage' = IF HasSession /\ now - Stored.lastActivityAt >= MAX_AGE
                  THEN {} ELSE storage
    /\ persisted' = IF storage' = {} THEN {} ELSE persisted
    /\ swept' = Sweep(HasSession, Age, storage' # storage)
    /\ UNCHANGED <<now, sessions, sock, out, turn, resp>>
    /\ UNCHANGED <<ingestVars, agentVars, toolVars, clientVars, storeVars>>

\* alarm(): the sweep. Nothing in the repository schedules it.
alarm ==
    /\ storage' = IF HasSession /\ now - Stored.lastActivityAt > MAX_AGE
                  THEN {} ELSE storage
    /\ persisted' = IF storage' = {} THEN {} ELSE persisted
    /\ swept' = Sweep(HasSession, Age, storage' # storage)
    /\ UNCHANGED <<now, sessions, sock, out, turn, resp>>
    /\ UNCHANGED <<ingestVars, agentVars, toolVars, clientVars, storeVars>>

\* Date.now() advances: by a millisecond, or by a day.
Tick(d) ==
    /\ now + d <= MAX_AGE + MaxDrift
    /\ (d = 1 => now % MAX_AGE < MaxDrift)
    /\ now' = now + d
    /\ UNCHANGED <<storage, sessions, sock, out, turn, resp, persisted>>
    /\ UNCHANGED <<ingestVars, agentVars, toolVars, sweepVars, clientVars, storeVars>>

(***************************************************************************)
(* The realtime channel: handleWebSocket and its listeners.                *)
(***************************************************************************)
Event(type, k) == [type |-> type, turn |-> k]
CanSend(c) == sock[c] = "open"
Sent(o, c, ev) == [o EXCEPT ![c] = Append(@, ev)]

IdleTurn == [pc |-> "none", via |-> "none", conn |-> "none", text |-> <<>>,
             session |-> {}, msgs |-> <<>>, steps |-> 0]
DoneTurn(via, c) == [IdleTurn EXCEPT !.pc = "done", !.via = via, !.conn = c]

\* Client messages are numbered in the order the server receives them.
FreshTurn(k) == turn[k].pc = "none" /\ \A j \in 1..(k - 1) : turn[j].pc # "none"
EventsSoFar == Cardinality({k \in TurnIds : turn[k].via \in {"text", "voice"}})

ChatMessage(role, content, t, k) ==
    [role |-> role, content |-> content, timestamp |-> t, turn |-> k]

\* server.accept(); this.sessions.set(sessionId, server); send 'connected'
WsAccept(c) ==
    /\ sock[c] = "new"
    /\ sock' = [sock EXCEPT ![c] = "open"]
    /\ sessions' = sessions \cup {c}
    /\ out' = Sent(out, c, Event("connected", 0))
    /\ UNCHANGED <<storage, now, turn, resp, persisted>>
    /\ UNCHANGED <<ingestVars, agentVars, toolVars, sweepVars, clientVars, storeVars>>

\* A close listener that clears the whole table.
WsCloseAll(c) ==
    /\ sock[c] \in {"open", "errored"}
    /\ sock' = [sock EXCEPT ![c] = "closed"]
    /\ sessions' = {}
    /\ UNCHANGED <<storage, now, out, turn, resp, persisted>>
    /\ UNCHANGED <<ingestVars, agentVars, toolVars, sweepVars, clientVars, storeVars>>

\* the 'error' listener: this.sessions.delete(sessionId). The connection takes
\* no further event but its close.
WsError(c) ==
    /\ sock[c] = "open"
    /\ sock' = [sock EXCEPT ![c] = "errored"]
    /\ sessions' = sessions \ {c}
    /\ UNCHANGED <<storage, now, out, turn, resp, persisted>>
    /\ UNCHANGED <<ingestVars, agentVars, toolVars, sweepVars, clientVars, storeVars>>

\* the 'close' listener: this.sessions.delete(sessionId)
WsClose(c) ==
    /\ sock[c] \in {"open", "errored"}
    /\ sock' = [sock EXCEPT ![c] = "closed"]
    /\ sessions' = sessions \ {c}
    /\ UNCHANGED <<storage, now, out, turn, resp, persisted>>
    /\ UNCHANGED <<ingestVars, agentVars, toolVars, sweepVars, clientVars, storeVars>>

\* handleTextInput that answers nothing when it finds no session.
BeginTextSilent(k, c, via, text, o, throws) ==
    IF ~HasSession
    THEN [out |-> o, turn |-> DoneTurn(via, c)]
    ELSE [out  |-> IF CanSend(c) THEN Sent(o, c, Event("status", k)) ELSE o,
          turn |-> [IdleTurn EXCEPT
                      !.pc = "agent", !.via = via, !.conn = c, !.text = text,
                      !.session = {[Stored EXCEPT !.messages =
                                      Append(@, ChatMessage("user", text, now, k))]}]]

\* handleTextInput up to its await of runAgentWorkflow: the events it sends on
\* channel c (added to o) and where it leaves turn k. A send on a channel the
\* client has left either throws or is dropped by the runtime (throws says
\* which): when it throws, the catch ends the handler before anything is stored.
BeginText(k, c, via, text, o, throws) ==
    IF ~HasSession
    THEN [out  |-> IF CanSend(c) THEN Sent(o, c, Event("error", k)) ELSE o,
          turn |-> DoneTurn(via, c)]
    ELSE IF ~CanSend(c) /\ throws
    THEN [out |-> o, turn |-> DoneTurn(via, c)]
    ELSE [out  |-> IF CanSend(c) THEN Sent(o, c, Event("status", k)) ELSE o,
          turn |-> [IdleTurn EXCEPT
                      !.pc = "agent", !.via = via, !.conn = c, !.text = text,
                      !.session = {[Stored EXCEPT !.messages =
                                      Append(@, ChatMessage("user", text, now, k))]}]]

\* a 'text' event on channel c
WsText(c, text) ==
    \E k \in TurnIds :
        /\ FreshTurn(k)
        /\ sock[c] = "open"
        /\ LET b == BeginText(k, c, "text", text, out, TRUE)
           IN  /\ out' = b.out
               /\ turn' = [turn EXCEPT ![k] = b.turn]
        /\ UNCHANGED <<storage, now, sessions, sock, resp, persisted>>
        /\ UNCHANGED <<ingestVars, agentVars, toolVars, sweepVars, clientVars, storeVars>>

\* The client events that are neither text nor voice: a keep-alive ping, the
\* answer to a heartbeat, a kind the switch does not know, and data that
\* JSON.parse rejects or that is no object.
OtherKinds == {"ping", "pong", "unknown", "malformed"}

\* The message listener of the earlier actor: it answers nothing to a kind it
\* does not know.
OtherReplySilent(kind, o, c, k) ==
    IF kind = "malformed" THEN Sent(o, c, [type |-> "error", turn |-> k,
                                          message |-> "Failed to process message"])
    ELSE o

\* A message listener without its keep-alive answer.
OtherReplyNoPong(kind, o, c, k) ==
    IF kind \in {"ping", "pong"} THEN o
    ELSE Sent(o, c, [type |-> "error", turn |-> k,
                     message |-> IF kind = "unknown" THEN "Unknown message type"
                                 ELSE "Failed to process message"])

\* What the switch of the message listener sends for such an event.
OtherReply(kind, o, c, k) ==
    CASE kind = "ping" -> Sent(o, c, Event("pong", k))
      [] kind = "pong" -> o
      [] kind = "unknown" -> Sent(o, c, [type |-> "error", turn |-> k,
                                         message |-> "Unknown message type"])
      [] kind = "malformed" -> Sent(o, c, [type |-> "error", turn |-> k,
                                           message |-> "Failed to process message"])

\* an event of one of these kinds on channel c
WsOther(c, kind) ==
    \E k \in TurnIds :
        /\ FreshTurn(k)
        /\ sock[c] = "open"
        /\ out' = OtherReply(kind, out, c, k)
        /\ turn' = [turn EXCEPT ![k] = DoneTurn(kind, c)]
        /\ UNCHANGED <<storage, now, sessions, sock, resp, persisted>>
        /\ UNCHANGED <<ingestVars, agentVars, toolVars, sweepVars, clientVars, storeVars>>

\* the onReasoningStep callback handleTextInput passes to runAgentWorkflow
ReasoningStep(k) ==
    /\ turn[k].pc = "agent"
    /\ turn[k].via \in {"text", "voice"}
    /\ turn[k].steps < MaxSteps
    /\ turn' = [turn EXCEPT ![k].steps = @ + 1]
    /\ out' = IF CanSend(turn[k].conn)
              THEN Sent(out, turn[k].conn, Event("reasoning_step", k))
              ELSE out
    /\ UNCHANGED <<storage, now, sessions, sock, resp, persisted>>
    /\ UNCHANGED <<ingestVars, agentVars, toolVars, sweepVars, clientVars, storeVars>>

\* handleTextInput dropping the reply of a failed model call.
SessionWithoutApology(session, text, reply, t, k) ==
    IF reply = Apology THEN session
    ELSE TrackStruggle(
             [session EXCEPT !.messages = Append(@, ChatMessage("assistant", reply, t, k)),
                             !.lastActivityAt = t],
             text)

\* The session handleTextInput puts once runAgentWorkflow has returned reply.
SessionAfterTurn(session, text, reply, t, k) ==
    TrackStruggle(
        [session EXCEPT !.messages = Append(@, ChatMessage("assistant", reply, t, k)),
                        !.lastActivityAt = t],
        text)

\* handleTextInput ending without its send.
SendNoResponse(o, c, k) == o

\* socket.send({ type: 'text_response', ... }) at the end of handleTextInput
SendTextResponse(o, c, k) == Sent(o, c, Event("text_response", k))

\* handleTextInput from the return of runAgentWorkflow to its end
AgentReturn(k, reply) ==
    /\ turn[k].pc = "agent"
    /\ turn[k].via \in {"text", "voice"}
    /\ LET c == turn[k].conn
           local == CHOOSE s \in turn[k].session : TRUE
       IN  /\ storage' = {SessionAfterTurn(local, turn[k].text, reply, now, k)}
           /\ out' = IF CanSend(c) THEN SendTextResponse(out, c, k) ELSE out
           /\ turn' = [turn EXCEPT ![k] = DoneTurn(turn[k].via, c)]
    /\ persisted' = persisted \cup {k}
    /\ UNCHANGED <<now, sessions, sock, resp>>
    /\ UNCHANGED <<ingestVars, agentVars, toolVars, sweepVars, clientVars, storeVars>>

\* a 'voice' event on channel c: handleVoiceInput up to its await of AI.run.
\* atob throws on a payload that is not base64.
Audio == {"base64", "garbage"}
WsVoice(c, audio) ==
    \E k \in TurnIds :
        /\ FreshTurn(k)
        /\ sock[c] = "open"
        /\ IF audio = "base64"
           THEN /\ out' = Sent(out, c, Event("status", k))
                /\ turn' = [turn EXCEPT ![k] =
                              [IdleTurn EXCEPT !.pc = "whisper", !.via = "voice", !.conn = c]]
           ELSE /\ out' = Sent(Sent(out, c, Event("status", k)), c, Event("error", k))
                /\ turn' = [turn EXCEPT ![k] = DoneTurn("voice", c)]
        /\ UNCHANGED <<storage, now, sessions, sock, resp, persisted>>
        /\ UNCHANGED <<ingestVars, agentVars, toolVars, sweepVars, clientVars, storeVars>>

\* What the speech-to-text call comes back with: it fails, or it answers with a
\* text that may be empty.
WhisperOutcomes ==
    {[ok |-> FALSE, text |-> <<>>]} \cup {[ok |-> TRUE, text |-> t] : t \in UserTexts \cup {<<>>}}

\* An error event with the message of the error that was caught.
ErrorEvent(k, message) == [type |-> "error", turn |-> k, message |-> message]

\* The transcription call threw, with no test of the text it returned.
TranscriptionFailed(outcome) == ~outcome.ok

\* Whether handleVoiceInput ends in its catch: the transcription call threw, or
\* (response?.text || '') is empty and the handler throws itself.
NoTranscription(outcome) == ~outcome.ok \/ outcome.text = <<>>
TranscriptionError(outcome) ==
    IF outcome.ok THEN "No transcription returned" ELSE "AI.run failed"

\* handleVoiceInput from the return of AI.run to the await inside handleTextInput
WhisperReturn(k, outcome, throws) ==
    /\ turn[k].pc = "whisper"
    /\ LET c == turn[k].conn
       IN  IF NoTranscription(outcome)
           THEN /\ out' = IF CanSend(c)
                          THEN Sent(out, c, ErrorEvent(k, TranscriptionError(outcome)))
                          ELSE out
                /\ turn' = [turn EXCEPT ![k] = DoneTurn("voice", c)]
           ELSE IF ~CanSend(c) /\ throws
           THEN /\ out' = out
                /\ turn' = [turn EXCEPT ![k] = DoneTurn("voice", c)]
           ELSE LET b == BeginText(k, c, "voice", outcome.text,
                                   IF CanSend(c)
                                   THEN Sent(out, c, Event("transcription", k))
                                   ELSE out,
                                   throws)
                IN  /\ out' = b.out
                    /\ turn' = [turn EXCEPT ![k] = b.turn]
    /\ UNCHANGED <<storage, now, sessions, sock, resp, persisted>>
    /\ UNCHANGED <<ingestVars, agentVars, toolVars, sweepVars, clientVars, storeVars>>

(***************************************************************************)
(* POST /api/chat of the router: the send-message endpoint.                *)
(***************************************************************************)
\* from the request to the await of runAgentWorkflow: it fetches /state
ChatStart(text) ==
    \E k \in TurnIds :
        /\ FreshTurn(k)
        /\ IF GetStateResponse(storage).status # 200
           THEN /\ resp' = Response("chat", 404)
                /\ turn' = [turn EXCEPT ![k] = DoneTurn("chat", "none")]
           ELSE /\ resp' = resp
                /\ turn' = [turn EXCEPT ![k] =
                              [IdleTurn EXCEPT !.pc = "agent", !.via = "chat", !.text = text,
                                               !.session = GetStateResponse(storage).body]]
        /\ UNCHANGED <<storage, now, sessions, sock, out, persisted>>
        /\ UNCHANGED <<ingestVars, agentVars, toolVars, sweepVars, clientVars, storeVars>>

\* The body the chat endpoint posts to /update.
ChatUpdateBody(text, reply, t, k) ==
    [messages |-> <<ChatMessage("user", text, t, k), ChatMessage("assistant", reply, t, k)>>]

\* runAgentWorkflow returns: the endpoint builds the update and sends it
ChatAgentReturn(k, reply) ==
    /\ turn[k].pc = "agent"
    /\ turn[k].via = "chat"
    /\ turn' = [turn EXCEPT ![k].pc = "update",
                            ![k].msgs = ChatUpdateBody(turn[k].text, reply, now, k).messages]
    /\ UNCHANGED <<storage, now, sessions, sock, out, resp, persisted>>
    /\ UNCHANGED <<ingestVars, agentVars, toolVars, sweepVars, clientVars, storeVars>>

\* the actor handles that /update and the endpoint answers the client
ChatUpdate(k) ==
    /\ turn[k].pc = "update"
    /\ storage' = UpdatedStorage(storage, [messages |-> turn[k].msgs], now)
    /\ persisted' = IF HasSession THEN persisted \cup {k} ELSE persisted
    /\ resp' = Response("chat", 200)
    /\ turn' = [turn EXCEPT ![k] = DoneTurn("chat", "none")]
    /\ UNCHANGED <<now, sessions, sock, out>>
    /\ UNCHANGED <<ingestVars, agentVars, toolVars, sweepVars, clientVars, storeVars>>

(***************************************************************************)
(* The other session endpoints of the router: get-session,                 *)
(* generate-flashcards and generate-plan.                                  *)
(***************************************************************************)
\* GET /api/session/:id: it relays the body of /state with c.json(session),
\* whose status is 200 whatever the actor's status was.
ApiSession ==
    /\ resp' = Response("session", 200)
    /\ UNCHANGED <<storage, now, sessions, sock, out, turn, persisted>>
    /\ UNCHANGED <<ingestVars, agentVars, toolVars, sweepVars, clientVars, storeVars>>

\* The generators and what each posts to /update.
Generators == {"flashcards", "plan"}
GeneratorUpdate(op) ==
    IF op = "flashcards" THEN [flashcards |-> "cards1"]
    ELSE [studyPlan |-> "plan1", flashcards |-> "cards2"]

\* POST /api/flashcards and POST /api/plan up to the await of the generator:
\* the endpoint fetches /state and answers 404 unless that was ok.
ApiGenerateStart(op) ==
    \E k \in TurnIds :
        /\ FreshTurn(k)
        /\ IF GetStateResponse(storage).status # 200
           THEN /\ resp' = Response(op, 404)
                /\ turn' = [turn EXCEPT ![k] = DoneTurn(op, "none")]
           ELSE /\ resp' = resp
                /\ turn' = [turn EXCEPT ![k] =
                              [IdleTurn EXCEPT !.pc = "generate", !.via = op,
                                               !.session = GetStateResponse(storage).body]]
        /\ UNCHANGED <<storage, now, sessions, sock, out, persisted>>
        /\ UNCHANGED <<ingestVars, agentVars, toolVars, sweepVars, clientVars, storeVars>>

\* the generator returns: the endpoint posts its result to /update and answers
ApiGenerateReturn(k) ==
    /\ turn[k].pc = "generate"
    /\ storage' = UpdatedStorage(storage, GeneratorUpdate(turn[k].via), now)
    /\ resp' = Response(turn[k].via, 200)
    /\ turn' = [turn EXCEPT ![k] = DoneTurn(turn[k].via, "none")]
    /\ UNCHANGED <<now, sessions, sock, out, persisted>>
    /\ UNCHANGED <<ingestVars, agentVars, toolVars, sweepVars, clientVars, storeVars>>

(***************************************************************************)
(* Paginated ingestion: ingestRepository and the run of calls that follows *)
(* its cursor.                                                             *)
(***************************************************************************)
Min(a, b) == IF a <= b THEN a ELSE b

\* Array.prototype.slice(a, b): a negative index counts from the end, and both
\* ends are clamped to the list.
SliceIndex(i, n) == IF i < 0 THEN Max(n + i, 0) ELSE Min(i, n)
slice(s, a, b) == SubSeq(s, SliceIndex(a, Len(s)) + 1, SliceIndex(b, Len(s)))

\* An entry of the listing: its type, what path.split('.').pop() yields, and the
\* number of chunks chunkText cuts its content into. The position of an entry
\* in the listing stands for its path.
TreeItems == {[type |-> "blob", ext |-> "ts", chunks |-> 1],
              [type |-> "blob", ext |-> "PY", chunks |-> 2],
              [type |-> "blob", ext |-> "png", chunks |-> 1],
              [type |-> "tree", ext |-> "src", chunks |-> 0]}
Trees == UNION {[1..n -> TreeItems] : n \in 0..MaxTree}

sourceExtensions ==
    {"js", "ts", "tsx", "jsx", "py", "java", "go", "rs", "cpp", "c", "md", "txt"}
IsSourceFile(item) == item.type = "blob" /\ toLowerCase(item.ext) \in sourceExtensions

\* data.tree.filter(blob).filter(extension): the positions kept, in listing order.
FilteredFiles(t) ==
    LET Keep(i) == IsSourceFile(t[i])
    IN  SelectSeq([i \in 1..Len(t) |-> i], Keep)

\* env.MAX_REPO_FILES is a string of wrangler's vars, or unset.
EnvMaxRepoFiles == {"", "1"}
parseInt(s) == IF s = "1" THEN 1 ELSE DEFAULT_MAX_REPO_FILES
maxFiles(env) == parseInt(IF env = "" THEN "50" ELSE env)

allSourceFiles(t, env) == slice(FilteredFiles(t), 0, maxFiles(env))

\* What a file of the slice meets: its content fetch, the embedding of its chunks
\* and the upsert of its vectors succeed, or one of them fails.
FileOutcomes == {"ok", "fetchFails", "embedFails", "upsertFails"}

Range(s) == {s[i] : i \in 1..Len(s)}

\* The files a call works on: its slice of the filtered list.
SliceOf(t, env, start, batchSize) ==
    Range(slice(allSourceFiles(t, env), start, start + batchSize))

\* What the upstream services do during one call: the listing of the repository
\* fails or succeeds, and each file of the slice meets one of FileOutcomes. The
\* files outside the slice are not touched by the call.
Upstreams(t, files) ==
    {[listing |-> FALSE, file |-> [i \in 1..Len(t) |-> "ok"]]} \cup
    {[listing |-> TRUE, file |-> [i \in 1..Len(t) |-> IF i \in files THEN f[i] ELSE "ok"]] :
        f \in [files -> FileOutcomes]}

IngestStats(processed, stored, skipped) ==
    [filesProcessed |-> processed, chunksStored |-> stored, filesSkipped |-> skipped]

\* hasMore as ingestRepository computes it.
HasMoreInclusive(start, batchSize, n) == start + batchSize <= n

HasMore(start, batchSize, n) == start + batchSize < n

\* A cursor that stays where the call started.
NextIndexStuck(start, batchSize) == start

\* The cursor a successful call returns.
NextIndex(start, batchSize) == start + batchSize

\* The repository of the ingestion: parseRepoUrl gives owner and name.
repoName == "o/r1"

\* An id that changes from call to call.
VectorIdPerCall(repo, path, chunkIndex) ==
    [repoName |-> repo, filePath |-> path, chunkIndex |-> chunkIndex + 2 * ingestCalls]

\* id: `${repoName}:${file.path}:${chunkIndex}`. The repository name holds no
\* colon and the chunk index is the text after the last one, so the string
\* determines its three parts.
VectorId(repo, path, chunkIndex) ==
    [repoName |-> repo, filePath |-> path, chunkIndex |-> chunkIndex]

\* The vectors storeFileEmbeddings builds for one file: one per chunk.
FileVectors(t, i) == {VectorId(repoName, i, c) : c \in 0..(t[i].chunks - 1)}

RECURSIVE SumChunks(_, _)
SumChunks(t, files) ==
    IF files = <<>> THEN 0 ELSE t[Head(files)].chunks + SumChunks(t, Tail(files))

\* skipped of storeFileEmbeddings: the files whose upsert threw. A file whose
\* embeddings all failed has no vectors, is not upserted and is not counted.
Skipped(up, validFiles) ==
    LET UpsertThrew(i) == up.file[i] = "upsertFails"
    IN  Len(SelectSeq(validFiles, UpsertThrew))

\* A catch that moves the cursor past the batch it could not list.
IngestFailureAdvancing(start, batchSize) ==
    [success |-> FALSE, stats |-> IngestStats(0, 0, 0), hasMore |-> FALSE,
     nextIndex |-> start + batchSize, sourceFiles |-> <<>>, validFiles |-> <<>>,
     storedFiles |-> <<>>]

\* What the catch of ingestRepository returns.
IngestFailure(start, batchSize) ==
    [success |-> FALSE, stats |-> IngestStats(0, 0, 0), hasMore |-> FALSE,
     nextIndex |-> start, sourceFiles |-> <<>>, validFiles |-> <<>>,
     storedFiles |-> <<>>]

\* ingestRepository(repoUrl, env, startIndex, batchSize): what it returns, with
\* the slice it worked on (sourceFiles), the files it fetched (validFiles) and
\* the files whose vectors it upserted (storedFiles).
ingestRepository(t, env, start, batchSize, up) ==
    IF ~up.listing
    THEN IngestFailure(start, batchSize)
    ELSE LET all == allSourceFiles(t, env)
             sourceFiles == slice(all, start, start + batchSize)
             Valid(i) == up.file[i] # "fetchFails"
             Upserted(i) == up.file[i] = "ok"
             validFiles == SelectSeq(sourceFiles, Valid)
             storedFiles == SelectSeq(validFiles, Upserted)
         IN  IF Len(sourceFiles) = 0
             THEN [success |-> TRUE, stats |-> IngestStats(0, 0, 0), hasMore |-> FALSE,
                   nextIndex |-> start, sourceFiles |-> <<>>, validFiles |-> <<>>,
                   storedFiles |-> <<>>]
             ELSE [success |-> TRUE,
                   stats |-> IngestStats(Len(validFiles), SumChunks(t, storedFiles),
                                         Skipped(up, validFiles)),
                   hasMore |-> HasMore(start, batchSize, Len(all)),
                   nextIndex |-> NextIndex(start, batchSize),
                   sourceFiles |-> sourceFiles, validFiles |-> validFiles,
                   storedFiles |-> storedFiles]

\* The outbound calls one ingestRepository issues: the fetch of getDefaultBranch
\* and the fetch of the tree (a failure of the listing is a failure of either), a
\* content fetch per file of the slice, a call of the embedding model per chunk
\* of every fetched file, and an upsert per file that has a vector.
UpsertCalls(t, up, validFiles) ==
    LET HasVectors(i) == up.file[i] \in {"ok", "upsertFails"} /\ t[i].chunks > 0
    IN  Len(SelectSeq(validFiles, HasVectors))
OutboundCalls(t, up, result) ==
    IF ~up.listing THEN {1, 2}
    ELSE {2 + Len(result.sourceFiles) + SumChunks(t, result.validFiles)
            + UpsertCalls(t, up, result.validFiles)}

\* The batch sizes callers ask for: the router's loop asks for 3, /api/ingest for
\* whatever parseInt makes of its query parameter.
BatchSizes == (0 - 1)..MaxBatch

NoResult == [success |-> TRUE, stats |-> IngestStats(0, 0, 0), hasMore |-> TRUE,
             nextIndex |-> 0, sourceFiles |-> <<>>, validFiles |-> <<>>,
             storedFiles |-> <<>>]
RunOver == ingestCalls > 0 /\ ~lastResult.hasMore

\* env.VECTORIZE_INDEX.upsert for the files a call stored: an id the index holds
\* already is overwritten.
Upserted(ix, t, result) == ix \cup UNION {FileVectors(t, i) : i \in Range(result.storedFiles)}

\* One call of the run: ingest at the cursor, add up the stats, follow nextIndex
\* while hasMore is set.
IngestBatch(batchSize, up) ==
    /\ ~RunOver
    /\ ingestCalls < MaxIngestCalls
    /\ LET result == ingestRepository(tree, MAX_REPO_FILES, startIndex, batchSize, up)
       IN  /\ lastResult' = result
           /\ totalFiles' = totalFiles + result.stats.filesProcessed
           /\ startIndex' = IF result.hasMore THEN result.nextIndex ELSE startIndex
           /\ visits' = [i \in DOMAIN visits |->
                           IF i \in Range(result.sourceFiles) THEN visits[i] + 1
                           ELSE visits[i]]
           /\ failedFetches' = failedFetches \cup
                                 (Range(result.sourceFiles) \ Range(result.validFiles))
           /\ index' = Upserted(index, tree, result)
           /\ upserts' = [i \in DOMAIN upserts |->
                            IF i \in Range(result.storedFiles) THEN upserts[i] + 1
                            ELSE upserts[i]]
           /\ \E n \in OutboundCalls(tree, up, result) : subrequests' = subrequests + n
    /\ ingestCalls' = ingestCalls + 1
    /\ call' = [start |-> startIndex, batchSize |-> batchSize]
    /\ UNCHANGED <<tree, MAX_REPO_FILES, run>>
    /\ UNCHANGED <<sessionVars, agentVars, toolVars, sweepVars, clientVars, storeVars>>

\* POST /api/analyze for a repository that was analysed before: its background
\* loop ingests the repository again, from index 0.
RestartRun ==
    /\ RunOver
    /\ run < MaxRuns
    /\ run' = run + 1
    /\ startIndex' = 0
    /\ ingestCalls' = 0
    /\ lastResult' = NoResult
    /\ visits' = [i \in DOMAIN visits |-> 0]
    /\ failedFetches' = {}
    /\ totalFiles' = 0
    /\ subrequests' = 0
    /\ UNCHANGED <<tree, MAX_REPO_FILES, index, upserts, call>>
    /\ UNCHANGED <<sessionVars, agentVars, toolVars, sweepVars, clientVars, storeVars>>

\* The cursors a client of /api/ingest sends.
StartIndexes == (0 - 1)..(MaxTree + 1)

\* What POST /api/ingest answers with.
IngestResponse(result) ==
    IF result.success THEN Response("ingest", 200) ELSE Response("ingest", 500)

\* POST /api/ingest?repo=..&start=..&batch=..: one call of ingestRepository with
\* the cursor and the batch size of the query.
ApiIngest(start, batchSize, up) ==
    /\ ingestCalls < MaxApiCalls
    /\ LET result == ingestRepository(tree, MAX_REPO_FILES, start, batchSize, up)
       IN  /\ lastResult' = result
           /\ resp' = IngestResponse(result)
           /\ index' = Upserted(index, tree, result)
           /\ upserts' = [i \in DOMAIN upserts |->
                            IF i \in Range(result.storedFiles) THEN upserts[i] + 1
                            ELSE upserts[i]]
           /\ subrequests' \in OutboundCalls(tree, up, result)
    /\ ingestCalls' = ingestCalls + 1
    /\ call' = [start |-> start, batchSize |-> batchSize]
    /\ UNCHANGED <<tree, MAX_REPO_FILES, startIndex, visits, failedFetches, totalFiles, run>>
    /\ UNCHANGED <<storage, now, sessions, sock, out, turn, persisted>>
    /\ UNCHANGED <<agentVars, toolVars, sweepVars, clientVars, storeVars>>

\* The repository and the configuration of a run.
IngestInit ==
    /\ tree \in Trees
    /\ MAX_REPO_FILES \in EnvMaxRepoFiles
    /\ startIndex = 0
    /\ ingestCalls = 0
    /\ lastResult = NoResult
    /\ visits = [i \in 1..Len(tree) |-> 0]
    /\ failedFetches = {}
    /\ totalFiles = 0
    /\ index = {}
    /\ upserts = visits
    /\ run = 1
    /\ call = [start |-> 0, batchSize |-> 0]
    /\ subrequests = 0

\* No ingestion run.
IngestIdle ==
    /\ tree = <<>>
    /\ MAX_REPO_FILES = ""
    /\ startIndex = 0
    /\ ingestCalls = 0
    /\ lastResult = NoResult
    /\ visits = <<>>
    /\ failedFetches = {}
    /\ totalFiles = 0
    /\ index = {}
    /\ upserts = visits
    /\ run = 1
    /\ call = [start |-> 0, batchSize |-> 0]
    /\ subrequests = 0

(***************************************************************************)
(* The turn orchestrator: runAgentWorkflow, its dispatch of the tool calls *)
(* of a response, and the wrapper that reports each call to onReasoningStep*)
(***************************************************************************)
tools == {"generate_concept_primer", "generate_socratic_question",
          "generate_study_plan", "generate_flashcards"}

\* A tool call of a response: a name the registry may not hold, and arguments
\* JSON.parse may not take.
ToolCalls == [name : {"generate_concept_primer", "generate_flashcards", "no_such_tool"},
              arguments : {"json", "garbage"}]
ToolCallLists == UNION {[1..n -> ToolCalls] : n \in 0..MaxToolCalls}

\* What a call of the model comes back with: it throws, or it answers.
ModelOutcomes == {[ok |-> FALSE, tool_calls |-> <<>>]} \cup
                 {[ok |-> TRUE, tool_calls |-> l] : l \in ToolCallLists}

Step(type, i) == [type |-> type, toolName |-> tool_calls[i].name, call |-> i]
StepOf(type, calls, i) == [type |-> type, toolName |-> calls[i].name, call |-> i]

\* onReasoningStep(step): socket.send, which throws once the channel is closed.
Delivers == socketOpen

\* Whether the async function Promise.all maps over call i reaches the handler:
\* the tool is found, its arguments parse, and the tool_call step is sent.
Starts(calls, i) ==
    /\ calls[i].name \in tools
    /\ calls[i].arguments = "json"
    /\ Delivers

\* The tool_call steps the dispatch of calls sends, in the order of the calls.
RECURSIVE ToolCallSteps(_, _)
ToolCallSteps(calls, i) ==
    IF i > Len(calls) THEN <<>>
    ELSE (IF Starts(calls, i) THEN <<StepOf("tool_call", calls, i)>> ELSE <<>>)
         \o ToolCallSteps(calls, i + 1)

\* Promise.all resolves once no handler has a tool call open.
AnySettled(h) == \E i \in 1..Len(h) : h[i] = "settled"
AllSettled(h) == \A i \in 1..Len(h) : h[i] = "settled"

Running == {i \in 1..Len(handlers) : handlers[i] = "running"}
AssistantMessage(content) == [role |-> "assistant", content |-> content]

\* runAgentWorkflow is called: it awaits the model.
RunAgent ==
    /\ apc = "idle"
    /\ apc' = "model"
    /\ UNCHANGED <<tool_calls, handlers, socketOpen, delivered, agentResponse>>
    /\ UNCHANGED <<sessionVars, ingestVars, toolVars, sweepVars, clientVars, storeVars>>

\* The first call of the model returns. Without tool calls the workflow returns
\* the answer; with tool calls it maps an async function over all of them, which
\* runs each up to the await of its handler, and awaits Promise.all.
ModelReturn(outcome) ==
    /\ apc = "model"
    /\ IF ~outcome.ok
       THEN /\ agentResponse' = <<AssistantMessage(Apology)>>
            /\ apc' = "returned"
            /\ UNCHANGED <<tool_calls, handlers, delivered>>
       ELSE IF Len(outcome.tool_calls) = 0
       THEN /\ agentResponse' = <<AssistantMessage(ModelReply)>>
            /\ apc' = "returned"
            /\ UNCHANGED <<tool_calls, handlers, delivered>>
       ELSE LET calls == outcome.tool_calls
                h == [i \in 1..Len(calls) |->
                        IF Starts(calls, i) THEN "running" ELSE "settled"]
            IN  /\ tool_calls' = calls
                /\ handlers' = h
                /\ delivered' = delivered \o ToolCallSteps(calls, 1)
                /\ apc' = IF AllSettled(h) THEN "followup" ELSE "tools"
                /\ UNCHANGED agentResponse
    /\ UNCHANGED socketOpen
    /\ UNCHANGED <<sessionVars, ingestVars, toolVars, sweepVars, clientVars, storeVars>>

\* The handler of call i returns or throws. When it returns the wrapper sends the
\* result step; either way the call is settled, and when it was the last one
\* open the workflow goes on to ask the model again.
HandlerSettles(i, ok) ==
    /\ i \in Running
    /\ handlers' = [handlers EXCEPT ![i] = "settled"]
    /\ delivered' = IF ok /\ Delivers THEN Append(delivered, Step("result", i))
                    ELSE delivered
    /\ apc' = IF apc = "tools" /\ AllSettled(handlers') THEN "followup" ELSE apc
    /\ UNCHANGED <<tool_calls, socketOpen, agentResponse>>
    /\ UNCHANGED <<sessionVars, ingestVars, toolVars, sweepVars, clientVars, storeVars>>

\* The second call of the model returns or throws: the workflow returns.
FollowUpReturn(ok) ==
    /\ apc = "followup"
    /\ agentResponse' = <<AssistantMessage(IF ok THEN ModelReply ELSE Apology)>>
    /\ apc' = "returned"
    /\ UNCHANGED <<tool_calls, handlers, socketOpen, delivered>>
    /\ UNCHANGED <<sessionVars, ingestVars, toolVars, sweepVars, clientVars, storeVars>>

\* The client goes away during the turn.
SocketClose ==
    /\ socketOpen
    /\ socketOpen' = FALSE
    /\ UNCHANGED <<apc, tool_calls, handlers, delivered, agentResponse>>
    /\ UNCHANGED <<sessionVars, ingestVars, toolVars, sweepVars, clientVars, storeVars>>

AgentIdle ==
    /\ apc = "idle"
    /\ tool_calls = <<>>
    /\ handlers = <<>>
    /\ socketOpen = TRUE
    /\ delivered = <<>>
    /\ agentResponse = <<>>

(***************************************************************************)
(* The session specification.                                              *)
(***************************************************************************)
SessionInit ==
    /\ storage = {}
    /\ now = 0
    /\ sessions = {}
    /\ sock = [c \in ConnIds |-> "new"]
    /\ out = [c \in ConnIds |-> <<>>]
    /\ turn = [k \in TurnIds |-> IdleTurn]
    /\ resp = Response("none", 0)
    /\ persisted = {}
    /\ swept = NeverSwept

\* The bodies /update receives: the router's, and a chat turn's.
UpdateBodies(t) ==
    RouterUpdates \cup {ChatUpdateBody(<<"what", "is", "middleware">>, ModelReply, t, 1)}

\* The session the turn specifications start from.
FirstBody == [sessionId |-> "s1", repoUrl |-> "github.com/o/r1", goal |-> "g1"]

\* The channel's listeners and the continuations of its handlers.
ChannelSteps ==
    \/ \E c \in ConnIds : WsAccept(c)
    \/ \E c \in ConnIds : WsClose(c)
    \/ \E k \in TurnIds, o \in WhisperOutcomes, throws \in BOOLEAN : WhisperReturn(k, o, throws)
    \/ \E k \in TurnIds : ReasoningStep(k)
    \/ \E k \in TurnIds, reply \in AgentReplies : AgentReturn(k, reply)

ChatNext ==
    \/ \E text \in UserTexts : ChatStart(text)
    \/ \E k \in TurnIds, reply \in AgentReplies : ChatAgentReturn(k, reply)
    \/ \E k \in TurnIds : ChatUpdate(k)

(***************************************************************************)
(* The flashcard generator: the generate_flashcards tool handler and       *)
(* generateFlashcards.                                                     *)
(***************************************************************************)
\* A flashcard of the model's answer, by its difficulty.
Cards == {"easy", "hard"}
RECURSIVE SeqsUpTo(_, _)
SeqsUpTo(S, n) ==
    IF n = 0 THEN {<<>>}
    ELSE LET shorter == SeqsUpTo(S, n - 1)
         IN  shorter \cup {Append(s, x) : s \in {q \in shorter : Len(q) = n - 1}, x \in S}

\* What JSON.parse makes of the text of the model: it throws, or yields null,
\* an object without a flashcards member, an object whose flashcards member is
\* a string, or an object whose flashcards member is a list of cards.
ParsedContents ==
    {[json |-> "unparsable", flashcards |-> <<>>],
     [json |-> "null", flashcards |-> <<>>],
     [json |-> "noMember", flashcards |-> <<>>],
     [json |-> "string", flashcards |-> <<>>]} \cup
    {[json |-> "list", flashcards |-> cards] : cards \in SeqsUpTo(Cards, MaxCards)}

\* env.AI.run: it throws, or answers with an empty response, or with a text.
AiOutcomes ==
    {[run |-> "throws", content |-> [json |-> "unparsable", flashcards |-> <<>>]],
     [run |-> "empty", content |-> [json |-> "unparsable", flashcards |-> <<>>]]} \cup
    {[run |-> "text", content |-> c] : c \in ParsedContents}

\* A value generateFlashcards hands to its caller, or the throw it ends with.
Returned(kind, cards) == [status |-> "returned", kind |-> kind, cards |-> cards]
Threw == [status |-> "threw", kind |-> "none", cards |-> <<>>]
NotRun == [status |-> "notRun", kind |-> "none", cards |-> <<>>]

\* The handler of generate_flashcards: the parsed answer of the model, or
\* { flashcards: [] } where the call or the parse throws.
FlashcardsHandler(outcome) ==
    IF outcome.run = "throws" THEN [json |-> "list", flashcards |-> <<>>]
    ELSE IF outcome.run = "empty" THEN [json |-> "list", flashcards |-> <<>>]
    ELSE IF outcome.content.json = "unparsable" THEN [json |-> "list", flashcards |-> <<>>]
    ELSE outcome.content

\* return result.flashcards || []: reading the member of null throws, a missing
\* member gives [], anything else is returned as it is.
ResultFlashcards(result) ==
    IF result.json = "null" THEN Threw
    ELSE IF result.json = "noMember" THEN Returned("list", <<>>)
    ELSE IF result.json = "string" THEN Returned("string", <<>>)
    ELSE Returned("list", result.flashcards)

\* generateFlashcards(struggles, repoName, env)
generateFlashcards ==
    /\ flashcards = NotRun
    /\ flashcards' = ResultFlashcards(FlashcardsHandler(aiOutcome))
    /\ UNCHANGED <<aiOutcome, search, searchResult, chunkInput, chunks>>
    /\ UNCHANGED <<sessionVars, ingestVars, agentVars, sweepVars, clientVars, storeVars>>

(***************************************************************************)
(* Code search: semanticSearch and the semantic_search tool.               *)
(***************************************************************************)
\* contentPreview: chunk.substring(0, 200), as the length of the string it gives
\* for a chunk of the given length.
ContentPreview(chunkLength) == Min(chunkLength, PREVIEW_LENGTH)

\* The files the index holds chunks of, with the length of their content: a
\* long file and a short one of the repository that is searched, and a file of
\* another repository.
IndexedFiles ==
    {[repoName |-> "o/r1", filePath |-> "a.ts", length |-> 5000],
     [repoName |-> "o/r1", filePath |-> "tiny.md", length |-> 120],
     [repoName |-> "o/r2", filePath |-> "b.py", length |-> 5000]}

\* A match of the index: its score and its metadata, where the vector has any.
\* The vectors storeFileEmbeddings wrote carry the repository, the path and
\* the preview of their chunk, the first chunk of the file here (a whole file
\* of less than 1000 characters is one chunk); a vector without metadata
\* carries no repository.
Matches ==
    {[score |-> 9, hasMetadata |-> TRUE, repoName |-> f.repoName, filePath |-> f.filePath,
      contentPreview |-> ContentPreview(Min(f.length, 1000))] : f \in IndexedFiles} \cup
    {[score |-> 5, hasMetadata |-> FALSE, repoName |-> "undefined", filePath |-> "",
      contentPreview |-> 0]}

\* A call of semanticSearch: the repository and the topK it asks for, whether
\* generateEmbedding and VECTORIZE_INDEX.query succeed, and the vectors the
\* index ranks for the query, best first.
Searches ==
    [repoName : {"o/r1"}, topK : {1, 5}, embedding : {"ok", "throws"},
     query : {"ok", "throws"}, ranked : SeqsUpTo(Matches, MaxMatches)]
NoSearch == [repoName |-> "o/r1", topK |-> 5, embedding |-> "ok", query |-> "ok",
             ranked |-> <<>>]

\* A query that passes no filter to the index.
QueryMatchesUnfiltered(s) == SubSeq(s.ranked, 1, Min(s.topK, Len(s.ranked)))

\* results.matches of query(queryEmbedding, {topK, filter: {repoName}}): the
\* first topK of the ranked vectors whose metadata carry that repository.
QueryMatches(s) ==
    LET OfRepo(m) == m.repoName = s.repoName
        filtered == SelectSeq(s.ranked, OfRepo)
    IN  SubSeq(filtered, 1, Min(s.topK, Len(filtered)))

\* The result the map of semanticSearch makes of one match.
SearchHit(match) ==
    [filePath |-> IF match.hasMetadata THEN match.filePath ELSE "undefined",
     score |-> match.score,
     preview |-> IF match.hasMetadata THEN match.contentPreview ELSE "undefined"]

SearchList(items) == [kind |-> "list", items |-> items]
NotSearched == [kind |-> "none", items |-> <<>>]

\* semanticSearch(query, repoName, env, topK): the hits of the matches, or []
\* where the embedding or the query throws.
SemanticSearchResult(s) ==
    IF s.embedding = "throws" \/ s.query = "throws" THEN SearchList(<<>>)
    ELSE SearchList([i \in 1..Len(QueryMatches(s)) |-> SearchHit(QueryMatches(s)[i])])

\* The handler of the semantic_search tool: it returns what semanticSearch returns.
semanticSearch ==
    /\ searchResult = NotSearched
    /\ searchResult' = SemanticSearchResult(search)
    /\ UNCHANGED <<aiOutcome, flashcards, search, chunkInput, chunks>>
    /\ UNCHANGED <<sessionVars, ingestVars, agentVars, sweepVars, clientVars, storeVars>>

(***************************************************************************)
(* The chunker: chunkText.                                                 *)
(***************************************************************************)
\* A line of a text: the blanks it starts with, the characters up to its last
\* non-blank one (none in a blank line), and the blanks it ends with.
Lines == [lead : 0..1, body : 0..MaxBody, trail : 0..1]

\* The caps chunkText is called with. Its callers leave the default of 1000;
\* the function treats every cap alike, and the texts of the model are as long
\* in proportion.
ChunkSizes == {3, 4}

\* text.split('\n'): at least one line, also for the empty text. Each line is
\* numbered by its place in the text.
Texts ==
    [lines : SeqsUpTo(Lines, MaxLines) \ {<<>>}, maxChunkSize : ChunkSizes]
Numbered(lines) ==
    [i \in 1..Len(lines) |->
        [id |-> i, lead |-> lines[i].lead, body |-> lines[i].body, trail |-> lines[i].trail]]

\* line.length
LineLength(line) == line.lead + line.body + line.trail

\* The length of the string that joins the lines ls with '\n'.
RECURSIVE SumLengths(_)
SumLengths(ls) == IF ls = <<>> THEN 0 ELSE LineLength(Head(ls)) + SumLengths(Tail(ls))
StringLength(ls) == IF ls = <<>> THEN 0 ELSE SumLengths(ls) + Len(ls) - 1

\* if (currentChunk): the empty string is false.
Truthy(ls) == StringLength(ls) > 0

\* String.prototype.trim on the joined lines: the blank lines at the start and
\* at the end go with their newlines, and so do the blanks before the first
\* and after the last non-blank character.
RECURSIVE DropBlankHead(_)
DropBlankHead(ls) ==
    IF ls = <<>> THEN <<>>
    ELSE IF Head(ls).body = 0 THEN DropBlankHead(Tail(ls))
    ELSE ls
RECURSIVE DropBlankTail(_)
DropBlankTail(ls) ==
    IF ls = <<>> THEN <<>>
    ELSE IF ls[Len(ls)].body = 0 THEN DropBlankTail(SubSeq(ls, 1, Len(ls) - 1))
    ELSE ls
trim(ls) ==
    LET kept == DropBlankTail(DropBlankHead(ls))
    IN  [i \in 1..Len(kept) |->
            [kept[i] EXCEPT !.lead = IF i = 1 THEN 0 ELSE @,
                            !.trail = IF i = Len(kept) THEN 0 ELSE @]]

\* A loop body that starts the next chunk empty when a line does not fit.
ChunkStepDropping(acc, line, maxChunkSize) ==
    IF StringLength(acc.currentChunk) + LineLength(line) > maxChunkSize
    THEN [chunks |-> IF Truthy(acc.currentChunk)
                     THEN Append(acc.chunks, trim(acc.currentChunk))
                     ELSE acc.chunks,
          currentChunk |-> <<>>]
    ELSE [chunks |-> acc.chunks,
          currentChunk |-> IF Truthy(acc.currentChunk)
                           THEN Append(acc.currentChunk, line)
                           ELSE <<line>>]

\* The body of the loop over the lines: a line that does not fit closes the
\* current chunk and starts the next one; a line that fits is added after a
\* newline, or as it is where the current chunk is the empty string.
ChunkStep(acc, line, maxChunkSize) ==
    IF StringLength(acc.currentChunk) + LineLength(line) > maxChunkSize
    THEN [chunks |-> IF Truthy(acc.currentChunk)
                     THEN Append(acc.chunks, trim(acc.currentChunk))
                     ELSE acc.chunks,
          currentChunk |-> <<line>>]
    ELSE [chunks |-> acc.chunks,
          currentChunk |-> IF Truthy(acc.currentChunk)
                           THEN Append(acc.currentChunk, line)
                           ELSE <<line>>]

RECURSIVE ChunkLoop(_, _, _)
ChunkLoop(acc, lines, maxChunkSize) ==
    IF lines = <<>> THEN acc
    ELSE ChunkLoop(ChunkStep(acc, Head(lines), maxChunkSize), Tail(lines), maxChunkSize)

\* chunkText(text, maxChunkSize): each chunk as the lines it holds.
chunkText(lines, maxChunkSize) ==
    LET acc == ChunkLoop([chunks |-> <<>>, currentChunk |-> <<>>], Numbered(lines),
                         maxChunkSize)
        all == IF Truthy(acc.currentChunk)
               THEN Append(acc.chunks, trim(acc.currentChunk))
               ELSE acc.chunks
    IN  SelectSeq(all, Truthy)

NotChunked == [done |-> FALSE, chunks |-> <<>>]
NoText == [lines |-> <<[lead |-> 0, body |-> 0, trail |-> 0]>>, maxChunkSize |-> 4]

\* A call of chunkText.
Chunk ==
    /\ ~chunks.done
    /\ chunks' = [done |-> TRUE, chunks |-> chunkText(chunkInput.lines, chunkInput.maxChunkSize)]
    /\ UNCHANGED <<aiOutcome, flashcards, search, searchResult, chunkInput>>
    /\ UNCHANGED <<sessionVars, ingestVars, agentVars, sweepVars, clientVars, storeVars>>

ToolsIdle ==
    /\ aiOutcome = [run |-> "empty", content |-> [json |-> "unparsable", flashcards |-> <<>>]]
    /\ flashcards = NotRun
    /\ search = NoSearch
    /\ searchResult = NotSearched
    /\ chunkInput = NoText
    /\ chunks = NotChunked

FlashcardsInit ==
    /\ aiOutcome \in AiOutcomes
    /\ flashcards = NotRun
    /\ search = NoSearch
    /\ searchResult = NotSearched
    /\ chunkInput = NoText
    /\ chunks = NotChunked

SearchInit ==
    /\ aiOutcome = [run |-> "empty", content |-> [json |-> "unparsable", flashcards |-> <<>>]]
    /\ flashcards = NotRun
    /\ search \in Searches
    /\ searchResult = NotSearched
    /\ chunkInput = NoText
    /\ chunks = NotChunked

ChunkInit ==
    /\ aiOutcome = [run |-> "empty", content |-> [json |-> "unparsable", flashcards |-> <<>>]]
    /\ flashcards = NotRun
    /\ search = NoSearch
    /\ searchResult = NotSearched
    /\ chunkInput \in Texts
    /\ chunks = NotChunked

(***************************************************************************)
(* The browser client: the WebSocket effect of App with its reconnect      *)
(* timer, and the handlers that send a message and show the loading state. *)
(***************************************************************************)
\* A WebSocket the effect created: the reconnectAttempts its handlers closed
\* over, its state, and the messages sent on it that no terminal event answered.
NewSocket(n) == [n |-> n, state |-> "connecting", unanswered |-> 0]

\* A delay without the cap of Math.min.
ReconnectDelayUncapped(n) == BASE_DELAY * 2^n

\* delay = Math.min(1000 * Math.pow(2, reconnectAttempts), 10000)
ReconnectDelay(n) == Min(BASE_DELAY * 2^n, MAX_DELAY)

\* The cleanup of the effect: clearTimeout of the timer the ref holds, and
\* ws.close() when the effect's WebSocket is open. close() starts the closing
\* handshake; onclose runs later.
CleanedTimers ==
    IF reconnectTimeoutRef # 0
    THEN [timers EXCEPT ![reconnectTimeoutRef].pending = FALSE]
    ELSE timers
CleanedSockets ==
    IF websocket # <<>> /\ websocket[Len(websocket)].state = "open"
    THEN [websocket EXCEPT ![Len(websocket)].state = "closing"]
    ELSE websocket

\* handleAnalyze succeeds: setSessionId, and the effect runs for the first time.
handleAnalyze ==
    /\ mounted /\ sessionId = "none"
    /\ sessionId' = "s1"
    /\ websocket' = Append(websocket, NewSocket(reconnectAttempts))
    /\ UNCHANGED <<mounted, reconnectAttempts, timers, reconnectTimeoutRef, isLoading,
                   http, sends, reported>>
    /\ UNCHANGED <<sessionVars, ingestVars, agentVars, toolVars, sweepVars, storeVars>>

\* ws.onopen
onopen(i) ==
    /\ websocket[i].state = "connecting"
    /\ websocket' = [websocket EXCEPT ![i].state = "open"]
    /\ UNCHANGED <<sessionId, mounted, reconnectAttempts, timers, reconnectTimeoutRef,
                   isLoading, http, sends, reported>>
    /\ UNCHANGED <<sessionVars, ingestVars, agentVars, toolVars, sweepVars, storeVars>>

\* ws.onclose, after ws.onerror when the connection failed: below the limit it
\* sets a timer and stores it in the ref, at the limit it reports an error.
\* The limit is tested on the reconnectAttempts the handler closed over.
onclose(i, failed) ==
    /\ websocket[i].state \in {"connecting", "open", "closing"}
    /\ (failed => websocket[i].state # "closing")
    /\ websocket' = [websocket EXCEPT ![i].state = "closed"]
    /\ IF websocket[i].n < MAX_RECONNECTS
       THEN /\ timers' = Append(timers, [delay |-> ReconnectDelay(websocket[i].n),
                                         made |-> reconnectAttempts, pending |-> TRUE])
            /\ reconnectTimeoutRef' = Len(timers) + 1
            /\ reported' = reported \cup
                              (IF failed /\ mounted THEN {"WebSocket connection error"} ELSE {})
       ELSE /\ reported' = reported \cup
                              (IF mounted
                               THEN {"WebSocket disconnected. Please refresh the page."} \cup
                                    (IF failed THEN {"WebSocket connection error"} ELSE {})
                               ELSE {})
            /\ UNCHANGED <<timers, reconnectTimeoutRef>>
    /\ UNCHANGED <<sessionId, mounted, reconnectAttempts, isLoading, http, sends>>
    /\ UNCHANGED <<sessionVars, ingestVars, agentVars, toolVars, sweepVars, storeVars>>

\* A reconnect timer fires: setReconnectAttempts(prev => prev + 1), and the
\* effect runs again, its cleanup first and then a new WebSocket. React drops
\* the update of a component that is not mounted.
TimerFires(t) ==
    /\ timers[t].pending
    /\ IF mounted
       THEN /\ reconnectAttempts' = reconnectAttempts + 1
            /\ timers' = [CleanedTimers EXCEPT ![t].pending = FALSE]
            /\ websocket' = Append(CleanedSockets, NewSocket(reconnectAttempts + 1))
       ELSE /\ timers' = [timers EXCEPT ![t].pending = FALSE]
            /\ UNCHANGED <<reconnectAttempts, websocket>>
    /\ UNCHANGED <<sessionId, mounted, reconnectTimeoutRef, isLoading, http, sends, reported>>
    /\ UNCHANGED <<sessionVars, ingestVars, agentVars, toolVars, sweepVars, storeVars>>

\* The component unmounts: the cleanup of the effect runs.
Unmount ==
    /\ mounted
    /\ mounted' = FALSE
    /\ timers' = CleanedTimers
    /\ websocket' = CleanedSockets
    /\ UNCHANGED <<sessionId, reconnectAttempts, reconnectTimeoutRef, isLoading, http,
                   sends, reported>>
    /\ UNCHANGED <<sessionVars, ingestVars, agentVars, toolVars, sweepVars, storeVars>>

\* Whether websocket.current is there and open.
CurrentOpen == websocket # <<>> /\ websocket[Len(websocket)].state = "open"
SentOnCurrent == [websocket EXCEPT ![Len(websocket)].unanswered = @ + 1]

\* handleSendMessage: setIsLoading(true), then the message goes over the open
\* WebSocket, or over HTTP, where the handler awaits sendChat.
handleSendMessage ==
    /\ mounted /\ sessionId # "none" /\ sends < MaxSends
    /\ sends' = sends + 1
    /\ isLoading' = TRUE
    /\ IF CurrentOpen
       THEN websocket' = SentOnCurrent /\ UNCHANGED http
       ELSE http' = http + 1 /\ UNCHANGED websocket
    /\ UNCHANGED <<sessionId, mounted, reconnectAttempts, timers, reconnectTimeoutRef, reported>>
    /\ UNCHANGED <<sessionVars, ingestVars, agentVars, toolVars, sweepVars, storeVars>>

\* handleVoiceToggle that stops a recording: over the open WebSocket it sends the
\* audio and its finally clears the loading state at once; over HTTP it awaits
\* the transcription and the chat.
handleVoiceToggle ==
    /\ mounted /\ sessionId # "none" /\ sends < MaxSends
    /\ sends' = sends + 1
    /\ IF CurrentOpen
       THEN websocket' = SentOnCurrent /\ isLoading' = FALSE /\ UNCHANGED http
       ELSE http' = http + 1 /\ isLoading' = TRUE /\ UNCHANGED websocket
    /\ UNCHANGED <<sessionId, mounted, reconnectAttempts, timers, reconnectTimeoutRef, reported>>
    /\ UNCHANGED <<sessionVars, ingestVars, agentVars, toolVars, sweepVars, storeVars>>

\* The HTTP fallback returns or throws: either way setIsLoading(false).
HttpReturn(ok) ==
    /\ http > 0
    /\ http' = http - 1
    /\ isLoading' = IF mounted THEN FALSE ELSE isLoading
    /\ reported' = reported \cup (IF ok \/ ~mounted THEN {} ELSE {"Failed to send message"})
    /\ UNCHANGED <<sessionId, mounted, reconnectAttempts, websocket, timers,
                   reconnectTimeoutRef, sends>>
    /\ UNCHANGED <<sessionVars, ingestVars, agentVars, toolVars, sweepVars, storeVars>>

\* ws.onmessage with the terminal event of a message: text_response or error.
TerminalEvents == {"text_response", "error"}
onmessage(i, type) ==
    /\ websocket[i].state = "open"
    /\ websocket[i].unanswered > 0
    /\ websocket' = [websocket EXCEPT ![i].unanswered = @ - 1]
    /\ isLoading' = IF mounted THEN FALSE ELSE isLoading
    /\ reported' = reported \cup (IF type = "error" /\ mounted THEN {"error event"} ELSE {})
    /\ UNCHANGED <<sessionId, mounted, reconnectAttempts, timers, reconnectTimeoutRef,
                   http, sends>>
    /\ UNCHANGED <<sessionVars, ingestVars, agentVars, toolVars, sweepVars, storeVars>>

\* The App component as React constructs it.
ClientInit ==
    /\ sessionId = "none"
    /\ mounted = TRUE
    /\ reconnectAttempts = 0
    /\ websocket = <<>>
    /\ timers = <<>>
    /\ reconnectTimeoutRef = 0
    /\ isLoading = FALSE
    /\ http = 0
    /\ sends = 0
    /\ reported = {}

(***************************************************************************)
(* The embedding of one file: the body of the file loop of                 *)
(* storeFileEmbeddings.                                                    *)
(***************************************************************************)
\* A file of the batch: the number of chunks chunkText cuts it into, whether
\* generateEmbedding succeeds or throws for each chunk, and whether the upsert
\* succeeds.
StoreInputs ==
    UNION {[chunks : {n}, embeds : [0..(n - 1) -> {"ok", "throws"}], upsert : {"ok", "throws"}] :
              n \in 0..MaxChunks}
NoFile == [chunks |-> 0, embeds |-> <<>>, upsert |-> "ok"]

\* A chunk index that counts the vectors made so far.
ChunkIndexByPosition(i, j, vectors) == Len(vectors)

\* chunkIndex = i + j
ChunkIndex(i, j, vectors) == i + j

\* The record pushed for a chunk.
VectorRecord(file, chunkIndex, totalChunks) ==
    [id |-> VectorId(repoName, file, chunkIndex), chunkIndex |-> chunkIndex,
     totalChunks |-> totalChunks]

\* The loop over a chunk batch: for (j = 0; j < chunkBatch.length; j++). A chunk
\* whose embedding throws is passed over by the catch.
RECURSIVE BatchLoop(_, _, _, _)
BatchLoop(in, i, j, vectors) ==
    IF j >= Min(CHUNK_BATCH_SIZE, in.chunks - i) THEN vectors
    ELSE BatchLoop(in, i, j + 1,
                   IF in.embeds[i + j] = "ok"
                   THEN Append(vectors, VectorRecord("f", ChunkIndex(i, j, vectors), in.chunks))
                   ELSE vectors)

\* The loop over the chunks: for (i = 0; i < chunks.length; i += CHUNK_BATCH_SIZE)
RECURSIVE ChunkBatches(_, _, _)
ChunkBatches(in, i, vectors) ==
    IF i >= in.chunks THEN vectors
    ELSE ChunkBatches(in, i + CHUNK_BATCH_SIZE, BatchLoop(in, i, 0, vectors))

\* One pass of the file loop: the vectors, the upserts that were called, what
\* the index holds of the file afterwards, and the two counters.
NotStored == [done |-> FALSE, upserts |-> <<>>, records |-> {}, stored |-> 0, skipped |-> 0]
StoreFile(in) ==
    LET vectors == ChunkBatches(in, 0, <<>>)
    IN  IF Len(vectors) = 0
        THEN [done |-> TRUE, upserts |-> <<>>, records |-> {}, stored |-> 0, skipped |-> 0]
        ELSE IF in.upsert = "ok"
        THEN [done |-> TRUE, upserts |-> <<vectors>>, records |-> Range(vectors),
              stored |-> Len(vectors), skipped |-> 0]
        ELSE [done |-> TRUE, upserts |-> <<vectors>>, records |-> {},
              stored |-> 0, skipped |-> 1]

\* storeFileEmbeddings for the file.
storeFileEmbeddings ==
    /\ ~storeResult.done
    /\ storeResult' = StoreFile(storeInput)
    /\ UNCHANGED storeInput
    /\ UNCHANGED <<sessionVars, ingestVars, agentVars, toolVars, sweepVars, clientVars>>

StoreIdle == storeInput = NoFile /\ storeResult = NotStored
StoreInit == storeInput \in StoreInputs /\ storeResult = NotStored

vars == <<sessionVars, ingestVars, agentVars, toolVars, sweepVars, clientVars, storeVars>>

Init == SessionInit /\ IngestIdle /\ AgentIdle /\ ToolsIdle /\ ClientInit /\ StoreIdle

\* One call of the flashcard generator, whatever the model answers.
InitFlashcards == SessionInit /\ IngestIdle /\ AgentIdle /\ FlashcardsInit /\ ClientInit /\ StoreIdle
SpecFlashcards == InitFlashcards /\ [][generateFlashcards]_vars

\* One semantic search, whatever the index holds.
InitSearch == SessionInit /\ IngestIdle /\ AgentIdle /\ SearchInit /\ ClientInit /\ StoreIdle
SpecSearch == InitSearch /\ [][semanticSearch]_vars

\* One call of the chunker, whatever the text.
InitChunk == SessionInit /\ IngestIdle /\ AgentIdle /\ ChunkInit /\ ClientInit /\ StoreIdle

\* One file through storeFileEmbeddings, for every number of chunks and every outcome.
InitStore == SessionInit /\ IngestIdle /\ AgentIdle /\ ToolsIdle /\ ClientInit /\ StoreInit
SpecStore == InitStore /\ [][storeFileEmbeddings]_vars
SpecChunk == InitChunk /\ [][Chunk]_vars

\* The turns of a session: the realtime channel and the send-message endpoint.
Next ==
    \/ handleInit(FirstBody)
    \/ \E c \in ConnIds, text \in UserTexts : WsText(c, text)
    \/ \E c \in ConnIds, audio \in Audio : WsVoice(c, audio)
    \/ ChannelSteps
    \/ ChatNext
Spec == Init /\ [][Next]_vars

\* The actor's state handlers, called in any order.
NextActor ==
    \/ \E b \in InitBodies : handleInit(b)
    \/ \E u \in UpdateBodies(now) : handleUpdate(u)
    \/ handleGetState
    \/ \E d \in {1, MAX_AGE} : Tick(d)
SpecActor == Init /\ [][NextActor]_vars

\* An update that carries the two timestamps of a session read earlier, which
\* Partial<SessionState> admits: the times are ones Date.now() gave before.
EchoBodies == {[createdAt |-> 0, lastActivityAt |-> 0, goal |-> "g2"]}

\* The session over time: updates of every kind and text turns, while the
\* clock advances.
NextActivity ==
    \/ handleInit(FirstBody)
    \/ \E u \in {[analysis |-> "analysis1"]} \cup EchoBodies : handleUpdate(u)
    \/ \E d \in {1, MAX_AGE} : Tick(d)
    \/ WsAccept("c1")
    \/ \E text \in {<<"what", "is", "middleware">>} :
          EventsSoFar < MaxEvents /\ WsText("c1", text)
    \/ \E k \in TurnIds, reply \in AgentReplies : AgentReturn(k, reply)
SpecActivity == Init /\ [][NextActivity]_vars

\* The actor with its alarm: the runtime may call alarm() at any time.
NextAlarm == NextActor \/ alarm
SpecAlarm == Init /\ [][NextAlarm]_vars

\* The actor over time: clients keep calling its handlers, reads through the
\* router among them, and the clock advances as long as the model's days last.
\* The runtime calls alarm() only at a time that state.storage.setAlarm() has
\* set, and no handler of the actor sets one, so alarm is not among the steps.
ClockAdvances == \E d \in {1, MAX_AGE} : Tick(d)
NextSweep == NextActor \/ ApiSession
SpecSweep == Init /\ [][NextSweep]_vars /\ WF_vars(NextSweep) /\ WF_vars(ClockAdvances)

\* The realtime channel of a session.
NextChannel ==
    \/ handleInit(FirstBody)
    \/ \E c \in ConnIds, text \in UserTexts : EventsSoFar < MaxEvents /\ WsText(c, text)
    \/ \E c \in ConnIds, audio \in Audio : EventsSoFar < MaxEvents /\ WsVoice(c, audio)
    \/ ChannelSteps
SpecChannel == Init /\ [][NextChannel]_vars

\* Text turns of a session one after the other: the client sends its next
\* message once the previous one was answered.
Busy == \E k \in TurnIds : turn[k].pc \in {"whisper", "agent", "update"}
NextTurns ==
    \/ handleInit(FirstBody)
    \/ \E c \in ConnIds : WsAccept(c)
    \/ \E c \in ConnIds, text \in UserTexts : ~Busy /\ WsText(c, text)
    \/ \E k \in TurnIds : ReasoningStep(k)
    \/ \E k \in TurnIds, reply \in AgentReplies : AgentReturn(k, reply)
SpecTurns == Init /\ [][NextTurns]_vars

\* The session endpoints of the router, called for an id with or without a
\* session.
NextApi ==
    \/ handleInit(FirstBody)
    \/ ApiSession
    \/ ChatNext
    \/ \E op \in Generators : ApiGenerateStart(op)
    \/ \E k \in TurnIds : ApiGenerateReturn(k)
SpecApi == Init /\ [][NextApi]_vars

\* The connections of a session: they are accepted, carry turns and pings at
\* any time, and close or fail.
NextConnections ==
    \/ handleInit(FirstBody)
    \/ \E c \in ConnIds : WsAccept(c)
    \/ \E c \in ConnIds : WsClose(c)
    \/ \E c \in ConnIds : WsError(c)
    \/ \E c \in ConnIds : WsOther(c, "ping")
    \/ \E c \in ConnIds, text \in UserTexts : EventsSoFar < MaxEvents /\ WsText(c, text)
    \/ \E c \in ConnIds, audio \in Audio : EventsSoFar < MaxEvents /\ WsVoice(c, audio)
    \/ \E k \in TurnIds, o \in WhisperOutcomes, throws \in BOOLEAN : WhisperReturn(k, o, throws)
    \/ \E k \in TurnIds, reply \in AgentReplies : AgentReturn(k, reply)
SpecConnections == Init /\ [][NextConnections]_vars

\* A channel that receives events of every kind, one after the other.
NextEvents ==
    \/ handleInit(FirstBody)
    \/ \E c \in ConnIds : WsAccept(c)
    \/ \E c \in ConnIds, kind \in OtherKinds : ~Busy /\ WsOther(c, kind)
    \/ \E c \in ConnIds, text \in UserTexts : ~Busy /\ WsText(c, text)
    \/ \E k \in TurnIds, reply \in AgentReplies : AgentReturn(k, reply)
SpecEvents == Init /\ [][NextEvents]_vars

\* A run of ingest calls over one repository.
NextIngest ==
    \/ \E batchSize \in BatchSizes :
          \E up \in Upstreams(tree, SliceOf(tree, MAX_REPO_FILES, startIndex, batchSize)) :
              IngestBatch(batchSize, up)
    \/ RestartRun
InitIngest == SessionInit /\ IngestInit /\ AgentIdle /\ ToolsIdle /\ ClientInit /\ StoreIdle
SpecIngest == InitIngest /\ [][NextIngest]_vars

\* Requests to /api/ingest with any cursor and batch size.
NextIngestApi ==
    \E start \in StartIndexes, batchSize \in BatchSizes :
        \E up \in Upstreams(tree, SliceOf(tree, MAX_REPO_FILES, start, batchSize)) :
            ApiIngest(start, batchSize, up)
SpecIngestApi == InitIngest /\ [][NextIngestApi]_vars

\* The background loop of POST /api/analyze: ingestRepository with a batch of 3
\* files, again and again inside the one request context of waitUntil, over a
\* repository that may hold a file of 47 chunks (some 47000 characters).
LargeFile == [type |-> "blob", ext |-> "md", chunks |-> 47]
RepoItems == {[type |-> "blob", ext |-> "ts", chunks |-> 1], LargeFile,
              [type |-> "tree", ext |-> "src", chunks |-> 0]}
Repos == UNION {[1..n -> RepoItems] : n \in 0..MaxRepo}
AnalyzeInit ==
    /\ tree \in Repos
    /\ MAX_REPO_FILES \in EnvMaxRepoFiles
    /\ startIndex = 0
    /\ ingestCalls = 0
    /\ lastResult = NoResult
    /\ visits = [i \in 1..Len(tree) |-> 0]
    /\ failedFetches = {}
    /\ totalFiles = 0
    /\ index = {}
    /\ upserts = visits
    /\ run = 1
    /\ call = [start |-> 0, batchSize |-> 0]
    /\ subrequests = 0
NextAnalyzeBatch ==
    \E up \in Upstreams(tree, SliceOf(tree, MAX_REPO_FILES, startIndex, DEFAULT_BATCH_SIZE)) :
        IngestBatch(DEFAULT_BATCH_SIZE, up)
NextAnalyze == NextAnalyzeBatch \/ RestartRun
InitAnalyze == SessionInit /\ AnalyzeInit /\ AgentIdle /\ ToolsIdle /\ ClientInit /\ StoreIdle
SpecAnalyze == InitAnalyze /\ [][NextAnalyze]_vars

\* One run of the loop, from its first call to its last.
SpecAnalyzeRun == InitAnalyze /\ [][NextAnalyzeBatch]_vars

\* One turn of the orchestrator.
NextAgent ==
    \/ RunAgent
    \/ \E outcome \in ModelOutcomes : ModelReturn(outcome)
    \/ \E i \in 1..MaxToolCalls, ok \in BOOLEAN : HandlerSettles(i, ok)
    \/ \E ok \in BOOLEAN : FollowUpReturn(ok)
    \/ SocketClose
SpecAgent == Init /\ [][NextAgent]_vars

\* The browser client: its events in any order.
NextClient ==
    \/ handleAnalyze
    \/ \E i \in 1..Len(websocket) : onopen(i)
    \/ \E i \in 1..Len(websocket), failed \in BOOLEAN : onclose(i, failed)
    \/ \E t \in 1..Len(timers) : TimerFires(t)
    \/ Unmount
    \/ handleSendMessage
    \/ handleVoiceToggle
    \/ \E ok \in BOOLEAN : HttpReturn(ok)
    \/ \E i \in 1..Len(websocket), type \in TerminalEvents : onmessage(i, type)
SpecClient == Init /\ [][NextClient]_vars


(***************************************************************************)
(* GET /api/session/:id of the router: it relays the body of /state and    *)
(* answers 200 whatever the actor's status was.                            *)
(***************************************************************************)
ApiSessionResponse(st) == [status |-> 200, body |-> GetStateResponse(st).body]

(***************************************************************************)
(* Claims about the session actor and its turns.                           *)
(***************************************************************************)
InFlight(k) == turn[k].pc \in {"whisper", "agent", "update"}
Messages == Stored.messages
HoldsTurn(msgs, k) ==
    /\ \E i \in 1..Len(msgs) : msgs[i].turn = k /\ msgs[i].role = "user"
    /\ \E i \in 1..Len(msgs) : msgs[i].turn = k /\ msgs[i].role = "assistant"

\* C1: once every turn on the session has completed, the persisted message
\* list holds the user message and the assistant reply of every turn that
\* wrote to the session; no turn's write is overwritten by another's.
C1_NoTurnLost ==
    (\A k \in TurnIds : ~InFlight(k)) =>
        \A k \in persisted : HasSession /\ HoldsTurn(Messages, k)

\* The events of client message k on channel c, in the order they were sent.
EventsOf(c, k) ==
    LET OfTurn(e) == e.turn = k IN SelectSeq(out[c], OfTurn)

Terminal == {"text_response", "error"}
Progress == {"status", "reasoning_step", "transcription"}

\* C2: for each text or voice event the server emits on that channel zero or
\* more status / reasoning_step / transcription events and then exactly one
\* terminal text_response or error, and nothing of that message after it.
C2_OneTerminalEvent ==
    \A k \in TurnIds :
        turn[k].via \in {"text", "voice"} =>
            LET c == turn[k].conn
                evs == EventsOf(c, k)
            IN  /\ \A d \in ConnIds \ {c} : EventsOf(d, k) = <<>>
                /\ \A i \in 1..Len(evs) :
                      evs[i].type \in (IF i < Len(evs) THEN Progress ELSE Progress \cup Terminal)
                /\ InFlight(k) => \A i \in 1..Len(evs) : evs[i].type \in Progress
                /\ (turn[k].pc = "done" /\ sock[c] = "open") =>
                      (Len(evs) > 0 /\ evs[Len(evs)].type \in Terminal)

\* A voice turn ran to its reply on a channel that is still open.
C2_Witness ==
    \E k \in TurnIds :
        /\ turn[k].pc = "done" /\ turn[k].via = "voice" /\ sock[turn[k].conn] = "open"
        /\ LET evs == EventsOf(turn[k].conn, k)
           IN  /\ Len(evs) = 5
               /\ evs[2].type = "transcription"
               /\ evs[4].type = "reasoning_step"
               /\ evs[5].type = "text_response"

\* C4: getState after init(id, repoRef, goal) returns a session with that
\* repoRef and goal and with empty message and struggle lists, and get-session
\* of the outer API returns the same id, repository and message list.
C4_InitThenGetState ==
    [][\A b \in InitBodies :
          handleInit(b) =>
              LET r == GetStateResponse(storage')
                  api == ApiSessionResponse(storage')
              IN  /\ r.status = 200
                  /\ \A s \in r.body :
                        /\ s.repoUrl = b.repoUrl /\ s.goal = b.goal
                        /\ s.messages = <<>> /\ s.userStruggles = <<>>
                  /\ Cardinality(r.body) = 1
                  /\ \A s \in api.body :
                        s.id = b.sessionId /\ s.repoUrl = b.repoUrl /\ s.messages = <<>>
                  /\ api.body = r.body]_vars

\* getState answered for a session that an init created a day into the run.
C4_Witness ==
    /\ resp = Response("state", 200)
    /\ HasSession /\ Stored.messages = <<>> /\ Stored.repoUrl = "github.com/o/r2"
    /\ Stored.createdAt = MAX_AGE

\* C5: applyUpdate on an id that holds no session answers NotFound and creates
\* no session: the store is unchanged and getState still answers NotFound.
C5_UpdateOfMissingSession ==
    [][\A u \in UpdateBodies(now) :
          (~HasSession /\ handleUpdate(u)) =>
              /\ resp'.status = 404
              /\ storage' = storage
              /\ GetStateResponse(storage').status = 404]_vars

\* An update was answered 404 and the store is still empty.
C5_Witness == resp = Response("update", 404) /\ ~HasSession

\* C6: init on an id whose session exists fails with AlreadyExists and leaves
\* the existing session unchanged.
C6_InitAlreadyExists ==
    [][\A b \in InitBodies :
          (HasSession /\ handleInit(b)) => (resp'.status = 409 /\ storage' = storage)]_vars

\* C7: applying {a:1} and then {b:2} to an existing session yields a session
\* with both set, and every other field but last-activity as it was before.
C7_UpdatesMerge ==
    [][\A a \in UpdateBodies(now) :
          (HasSession /\ handleUpdate(a)) =>
              \A b \in UpdateBodies(now) :
                  LET s0 == Stored
                      after == UpdatedStorage(storage', b, now)
                  IN  /\ Cardinality(after) = 1
                      /\ \A s2 \in after :
                            /\ DOMAIN s2 = (DOMAIN s0 \cup DOMAIN a) \cup DOMAIN b
                            /\ \A f \in DOMAIN s2 \ {"lastActivityAt"} :
                                  s2[f] = IF f \in DOMAIN b THEN b[f]
                                          ELSE IF f \in DOMAIN a THEN a[f]
                                          ELSE s0[f]]_vars

\* A session that two updates have written to, with messages and a plan in it.
C7_Witness ==
    /\ resp = Response("update", 200)
    /\ HasSession
    /\ {"analysis", "flashcards", "studyPlan"} \subseteq DOMAIN Stored
    /\ Stored.messages # <<>>
    /\ Stored.lastActivityAt > Stored.createdAt

\* A turn completes in this step: its handler's last write reaches the store.
Completes(k) == InFlight(k) /\ turn'[k].pc = "done" /\ k \in persisted'

\* C8: after every completed turn, on the realtime channel or through
\* send-message, the message list is its value before the turn with the user
\* message and then the assistant reply appended.
C8_HistoryAppended ==
    [][\A k \in TurnIds :
          Completes(k) =>
              /\ HasSession
              /\ LET old == Messages
                     new == (CHOOSE s \in storage' : TRUE).messages
                 IN  /\ Len(new) = Len(old) + 2
                     /\ SubSeq(new, 1, Len(old)) = old
                     /\ new[Len(old) + 1].role = "user" /\ new[Len(old) + 1].turn = k
                     /\ new[Len(old) + 2].role = "assistant" /\ new[Len(old) + 2].turn = k]_vars

\* C3: when a run of ingest calls that starts at index 0 and follows nextIndex
\* ends with hasMore false, every source file of the listing was in the slice of
\* exactly one call, and the sum of stats.filesProcessed over the run is the
\* count of the source files less the files whose content fetch failed.
C3_EveryFileOnce ==
    RunOver =>
        /\ \A i \in Range(FilteredFiles(tree)) : visits[i] = 1
        /\ totalFiles = Len(FilteredFiles(tree)) - Cardinality(failedFetches)

C10_OneHandlerAtATime == Cardinality(Running) <= 1

\* The steps that carry turn k on without an upstream failure: the transcription
\* came back with a text, or the orchestrator returned.
GoodTranscriptions == {o \in WhisperOutcomes : o.ok /\ o.text # <<>>}
Advances(k) ==
    \/ \E reply \in AgentReplies : AgentReturn(k, reply)
    \/ \E o \in GoodTranscriptions, throws \in BOOLEAN : WhisperReturn(k, o, throws)

\* C11: when the channel of a turn in flight has been disconnected, the turn
\* still runs to its end: the step that ends its handler leaves the user message
\* and the assistant reply of that turn in the stored session, where a getState
\* after the turn finds them.
C11_DisconnectedTurnPersists ==
    [][\A k \in TurnIds :
          (/\ HasSession /\ InFlight(k) /\ turn[k].via \in {"text", "voice"}
           /\ sock[turn[k].conn] = "closed"
           /\ Advances(k) /\ turn'[k].pc = "done") =>
              \A s \in GetStateResponse(storage').body : HoldsTurn(s.messages, k)]_vars

HasApology(msgs) == \E i \in 1..Len(msgs) : msgs[i].content = Apology

\* C12: when the model call of a turn fails, the orchestrator's one apology
\* message is appended after the user message of the turn and the session is
\* stored, the channel stays as it was, and a later turn on a session whose
\* history holds an apology appends its user message and its reply as usual.
C12_ModelFailureIsAnswered ==
    [][\A k \in TurnIds :
          /\ AgentReturn(k, Apology) =>
                LET local == CHOOSE s \in turn[k].session : TRUE
                    n == Len(local.messages)
                IN  /\ HasSession'
                    /\ n > 0 /\ local.messages[n] = ChatMessage("user", turn[k].text, now, k)
                    /\ Stored'.messages =
                          Append(local.messages, ChatMessage("assistant", Apology, now, k))
                    /\ sock' = sock
          /\ \A reply \in AgentReplies :
                (AgentReturn(k, reply) /\ HasSession /\ HasApology(Messages)) =>
                    Stored'.messages =
                        Messages \o <<ChatMessage("user", turn[k].text, now, k),
                                      ChatMessage("assistant", reply, now, k)>>]_vars

\* A turn that ended in the apology is stored, and the turn after it was
\* answered by the model and stored behind it.
C12_Witness ==
    /\ HasSession /\ Len(Messages) = 4
    /\ Messages[2].content = Apology /\ Messages[2].turn = 1
    /\ Messages[3].role = "user" /\ Messages[3].turn = 2
    /\ Messages[4].content = ModelReply
    /\ \A k \in TurnIds : turn[k].pc = "done"

\* C13: when the transcription of a voice event fails or comes back empty, the
\* handler ends there: the orchestrator is not started, the stored session is
\* left as it is, and the events of the turn on its channel are the status and,
\* while the channel is open to take it, one error; no transcription and no
\* text_response.
C13_FailedTranscription ==
    [][\A k \in TurnIds, o \in WhisperOutcomes \ GoodTranscriptions, throws \in BOOLEAN :
          WhisperReturn(k, o, throws) =>
              LET c == turn[k].conn
                  OfTurn(e) == e.turn = k
                  evs == SelectSeq(out'[c], OfTurn)
              IN  /\ turn'[k].pc = "done"
                  /\ \A j \in TurnIds : turn'[j].pc = "agent" => turn[j].pc = "agent"
                  /\ storage' = storage
                  /\ sock[c] = "open" =>
                        /\ Len(evs) = 2
                        /\ evs[1] = Event("status", k)
                        /\ evs[2].type = "error"
                  /\ \A i \in 1..Len(evs) : evs[i].type \notin {"transcription", "text_response"}
                  /\ \A d \in ConnIds \ {c} : out'[d] = out[d]]_vars

\* A voice event on a session was answered with the error of an empty
\* transcription; the channel is open and the history is still empty.
C13_Witness ==
    \E k \in TurnIds :
        /\ turn[k].pc = "done" /\ turn[k].via = "voice" /\ sock[turn[k].conn] = "open"
        /\ HasSession /\ Messages = <<>>
        /\ EventsOf(turn[k].conn, k) =
              <<Event("status", k), ErrorEvent(k, "No transcription returned")>>

\* C14: for every call POST /api/ingest accepts, whatever its startIndex and
\* batchSize, the nextIndex it returns is at least the startIndex it was given.
C14_CursorNeverMovesBack ==
    ingestCalls > 0 => lastResult.nextIndex >= call.start

\* The filtered file count of the repository: the source files of the listing,
\* cut at MAX_REPO_FILES.
FilteredCount == Len(allSourceFiles(tree, MAX_REPO_FILES))

\* The end of the part of a list of n files that the slice [start, start + batchSize)
\* takes; the cursor itself where it takes nothing.
SliceEnd(start, batchSize, n) ==
    IF SliceIndex(start, n) < SliceIndex(start + batchSize, n)
    THEN SliceIndex(start + batchSize, n)
    ELSE start

\* C15 as stated: a successful ingest returns hasMore = (startIndex + batchSize < N)
\* and a nextIndex that is the end of the slice actually taken from the filtered list.
C15_AsStated ==
    (ingestCalls > 0 /\ lastResult.success) =>
        /\ lastResult.hasMore = (call.start + call.batchSize < FilteredCount)
        /\ lastResult.nextIndex = SliceEnd(call.start, call.batchSize, FilteredCount)

\* C15: a successful ingest whose slice holds a file returns
\* hasMore = (startIndex + batchSize < N) and nextIndex = startIndex + batchSize,
\* the end that was asked for, also where it lies beyond the list; one whose
\* slice is empty returns hasMore = false and nextIndex = startIndex.
C15_HasMoreAndNextIndex ==
    (ingestCalls > 0 /\ lastResult.success) =>
        IF Len(lastResult.sourceFiles) = 0
        THEN /\ ~lastResult.hasMore
             /\ lastResult.nextIndex = call.start
        ELSE /\ lastResult.hasMore <=> (call.start + call.batchSize < FilteredCount)
             /\ lastResult.nextIndex = call.start + call.batchSize

\* A successful call took the last file of the list and returned a cursor
\* beyond the end of the list.
C15_Witness ==
    /\ ingestCalls = 1
    /\ lastResult.success
    /\ Len(lastResult.sourceFiles) > 0
    /\ ~lastResult.hasMore
    /\ lastResult.nextIndex > FilteredCount

\* The ids an unchanged repository can give rise to: one per source file of the
\* listing and chunk of its content.
ExpectedIds ==
    {[repoName |-> "o/r1", filePath |-> i, chunkIndex |-> c] :
        i \in {j \in 1..Len(tree) : IsSourceFile(tree[j])}, c \in 0..1} \cap
    {id \in [repoName : {"o/r1"}, filePath : 1..Len(tree), chunkIndex : 0..1] :
        id.chunkIndex < tree[id.filePath].chunks}

FailedFiles == Range(lastResult.sourceFiles) \ Range(lastResult.storedFiles)

\* C17: within a batch every file that fails, in its content fetch, its embedding
\* or its upsert, is skipped and counted in the filesSkipped of the returned
\* stats, and the other files of the batch are still stored.
C17_FailedFilesAreCounted ==
    (ingestCalls > 0 /\ lastResult.success) =>
        /\ lastResult.stats.filesSkipped = Cardinality(FailedFiles)
        /\ lastResult.stats.chunksStored = SumChunks(tree, lastResult.storedFiles)

\* The stored session's last activity lies more than 24 hours in the past.
Expired == HasSession /\ now - Stored.lastActivityAt > MAX_AGE

\* C18: a session whose last activity lies more than 24 hours in the past is
\* eventually deleted by the sweep, without a request to it (a request that
\* renews its last activity ends the obligation).
C18_ExpiredSessionIsSwept == Expired ~> ~Expired

\* The error events of turn k among the events evs.
ErrorsOf(evs, k) ==
    LET IsError(e) == e.type = "error" /\ e.turn = k
    IN  SelectSeq(evs, IsError)

\* What an event that is rejected with one error event does: one more event on
\* its channel, an error, nothing on the other channels, every channel in the
\* state it was in, and the stored session as it was.
RejectedOnce(c) ==
    /\ \E e \in {[type |-> "error", turn |-> k, message |-> m] :
                    k \in TurnIds, m \in {"Unknown message type", "Failed to process message"}} :
           out' = [out EXCEPT ![c] = Append(@, e)]
    /\ sock' = sock
    /\ sock'[c] = "open"
    /\ storage' = storage

\* C19 as stated: an event whose kind is not text, voice or ping produces exactly
\* one error event on its channel, leaves the channel open and the session unchanged.
C19_AsStated ==
    [][\A c \in ConnIds, kind \in OtherKinds \ {"ping"} :
          WsOther(c, kind) => RejectedOnce(c)]_vars

\* C19: an event whose kind is not text, voice, ping or pong, or whose data
\* cannot be parsed, produces exactly one error event on its channel; a pong
\* produces no event; both leave the channel open and the session unchanged.
C19_UnknownKindIsRejected ==
    [][\A c \in ConnIds :
          /\ \A kind \in OtherKinds \ {"ping", "pong"} : WsOther(c, kind) => RejectedOnce(c)
          /\ WsOther(c, "pong") => (out' = out /\ sock' = sock /\ storage' = storage)]_vars

\* An event of an unknown kind was answered with one error event, and a text
\* event that came later on the same channel was answered with its response.
C19_Witness ==
    \E c \in ConnIds : \E j, k \in TurnIds :
        /\ j < k
        /\ turn[j] = DoneTurn("unknown", c)
        /\ turn[k] = DoneTurn("text", c)
        /\ Len(ErrorsOf(out[c], j)) = 1
        /\ \E i \in 1..Len(out[c]) : out[c][i] = Event("text_response", k)

\* No agent turn and no generator is running.
NothingRuns == \A k \in TurnIds : turn[k].pc \notin {"agent", "generate", "update"}

\* C20: for an id without a session, get-session, send-message,
\* generate-flashcards and generate-plan each answer 404, and no agent turn or
\* generator is started.
C20_UnknownSessionIs404 ==
    [][~HasSession =>
          /\ ApiSession => resp'.status = 404
          /\ \A text \in UserTexts :
                ChatStart(text) => (resp' = Response("chat", 404) /\ NothingRuns')
          /\ \A op \in Generators :
                ApiGenerateStart(op) => (resp' = Response(op, 404) /\ NothingRuns')]_vars

(***************************************************************************)
(* Claims about the tools.                                                 *)
(***************************************************************************)
\* C21: generateFlashcards returns a list of exactly 5 items, or the empty
\* list, whatever the model outputs; never 1 to 4 items, 6 or more, or
\* anything that is no list.
C21_FiveOrNone ==
    flashcards # NotRun =>
        /\ flashcards.status = "returned"
        /\ flashcards.kind = "list"
        /\ Len(flashcards.cards) \in {0, 5}

\* C22: when the index returns no match for the query, search returns a
\* descriptive "not found" string, not an empty list or other empty structure.
C22_NoMatchIsDescribed ==
    (/\ searchResult # NotSearched
     /\ search.embedding = "ok" /\ search.query = "ok"
     /\ QueryMatches(search) = <<>>) =>
        searchResult.kind = "string"

\* C23: a close or an error of a connection removes that connection's handle
\* from the table and nothing else, and leaves the stored session and the
\* other connections as they were; the table holds exactly the accepted
\* connections that have neither closed nor failed.
C23_TableHoldsOpenConnections ==
    [][/\ sessions' = {c \in ConnIds : sock'[c] = "open"}
       /\ \A c \in ConnIds :
             (WsClose(c) \/ WsError(c)) =>
                 /\ sessions' = sessions \ {c}
                 /\ storage' = storage
                 /\ \A d \in ConnIds \ {c} : sock'[d] = sock[d] /\ out'[d] = out[d]]_vars

\* One connection is open and in the table after another has closed or
\* failed, and the session is stored.
C23_Witness ==
    /\ HasSession
    /\ \E c, d \in ConnIds :
          /\ sock[c] = "open" /\ c \in sessions
          /\ sock[d] \in {"closed", "errored"} /\ d \notin sessions

\* C24: the first event on an accepted channel is connected, and a ping on an
\* open channel is answered with exactly one pong on that channel, with the
\* session and the other channels unchanged, also while a turn is in flight.
C24_ConnectedThenPong ==
    [][/\ \A c \in ConnIds :
             sock'[c] # "new" => (out'[c] # <<>> /\ Head(out'[c]) = Event("connected", 0))
       /\ \A c \in ConnIds :
             WsOther(c, "ping") =>
                 /\ \E k \in TurnIds : out' = [out EXCEPT ![c] = Append(@, Event("pong", k))]
                 /\ storage' = storage
                 /\ sock' = sock]_vars

\* A ping that arrived while a turn of the session was in flight has its pong.
C24_Witness ==
    \E c \in ConnIds : \E j, k \in TurnIds :
        /\ j < k
        /\ turn[j].pc \in {"whisper", "agent"}
        /\ turn[k] = DoneTurn("ping", c)
        /\ Len(SelectSeq(out[c], LAMBDA e : e = Event("pong", k))) = 1

\* C25: every chunk chunkText returns is at most maxChunkSize characters long,
\* for every text.
C25_ChunksUnderCap ==
    chunks.done =>
        \A i \in 1..Len(chunks.chunks) : StringLength(chunks.chunks[i]) <= chunkInput.maxChunkSize

\* The lines of the chunks, chunk after chunk.
RECURSIVE Flat(_)
Flat(cs) == IF cs = <<>> THEN <<>> ELSE Head(cs) \o Flat(Tail(cs))

\* The lines of ls that hold a non-blank character.
NonBlank(ls) == LET HasBody(l) == l.body > 0 IN SelectSeq(ls, HasBody)

\* A line without the blanks at its ends.
Stripped(ls) == [i \in 1..Len(ls) |-> [id |-> ls[i].id, body |-> ls[i].body]]

\* C26 as stated: the chunks, taken in order, hold every non-blank line of the
\* text exactly once, as it is and in the original order, and no chunk is empty.
C26_AsStated ==
    chunks.done =>
        /\ NonBlank(Flat(chunks.chunks)) = NonBlank(Numbered(chunkInput.lines))
        /\ \A i \in 1..Len(chunks.chunks) : StringLength(chunks.chunks[i]) > 0

\* C26: the chunks, taken in order, hold every non-blank line of the text
\* exactly once and in the original order, each in one chunk; a line is as in
\* the text except that the first line of a chunk has lost the blanks it
\* started with and the last line of a chunk the blanks it ended with; no
\* chunk is empty.
C26_LinesKept ==
    chunks.done =>
        /\ Stripped(NonBlank(Flat(chunks.chunks))) = Stripped(NonBlank(Numbered(chunkInput.lines)))
        /\ \A i \in 1..Len(chunks.chunks) :
              LET c == chunks.chunks[i]
              IN  /\ StringLength(c) > 0
                  /\ c[1].body > 0 /\ c[1].lead = 0
                  /\ c[Len(c)].body > 0 /\ c[Len(c)].trail = 0
                  /\ \A j \in 1..Len(c) :
                        /\ j > 1 => c[j].lead = chunkInput.lines[c[j].id].lead
                        /\ j < Len(c) => c[j].trail = chunkInput.lines[c[j].id].trail

\* A text was cut into more than one chunk, and a line that starts a chunk
\* began with a blank in the text.
C26_Witness ==
    /\ chunks.done
    /\ Len(chunks.chunks) > 1
    /\ \E i \in 1..Len(chunks.chunks) : chunkInput.lines[chunks.chunks[i][1].id].lead = 1

\* s is t, or t with entries added at its end.
IsPrefix(s, t) == Len(s) <= Len(t) /\ SubSeq(t, 1, Len(s)) = s
NoDuplicate(s) == \A i, j \in 1..Len(s) : s[i] = s[j] => i = j

\* C27: a turn leaves the struggle list without duplicates and with its earlier
\* entries in place and in order, and a turn whose utterance holds no struggle
\* indicator leaves the list as it was.
C27_StrugglesOnlyGrow ==
    [][\A k \in TurnIds, reply \in AgentReplies :
          (HasSession /\ AgentReturn(k, reply)) =>
              /\ NoDuplicate(Stored'.userStruggles)
              /\ IsPrefix(Stored.userStruggles, Stored'.userStruggles)
              /\ ~HasStruggleIndicator(turn[k].text) =>
                    Stored'.userStruggles = Stored.userStruggles]_vars

\* The candidate concept tokens of a stored session: the words longer than six
\* characters of its last five messages.
Candidates(session) == SelectSeq(ContextWords(LastN(session.messages, 5)), IsLongWord)

\* C28: when the user's utterance matches a struggle indicator, every candidate
\* concept token of the recent history is in the session's struggle list once the
\* turn has stored the session.
C28_EveryCandidateAdded ==
    [][\A k \in TurnIds, reply \in AgentReplies :
          (AgentReturn(k, reply) /\ HasStruggleIndicator(turn[k].text)) =>
              \A i \in 1..Len(Candidates(Stored')) :
                  includes(Stored'.userStruggles, Candidates(Stored')[i])]_vars

\* C29: a single invocation never exceeds the outbound-call ceiling of 50: the
\* repository fetches, embedding calls and index upserts the background loop of
\* /api/analyze has issued in its request context, after one ingest call with the
\* batch of 3 files or after several, stay at or below 50.
C29_UnderCeiling == subrequests <= SUBREQUEST_LIMIT

\* C30: the sweep deletes a session only when the time since its last activity
\* is strictly greater than 24 hours: a call of alarm() on a session that was
\* active within the last 24 hours, exactly 24 hours ago included, leaves the
\* storage as it is, and a call with no session stored changes nothing.
C30_SweepIsStrict ==
    [][alarm =>
          /\ (storage' # storage) => (HasSession /\ now - Stored.lastActivityAt > MAX_AGE)
          /\ (HasSession /\ now - Stored.lastActivityAt <= MAX_AGE) =>
                 UNCHANGED <<sessionVars, ingestVars, agentVars, toolVars, storeVars>>
          /\ ~HasSession => UNCHANGED <<sessionVars, ingestVars, agentVars, toolVars, storeVars>>]_vars

\* alarm() has run on a session last active exactly 24 hours before and has kept
\* it, and the clock has not moved since.
C30_Witness ==
    /\ swept.fired /\ swept.session /\ swept.age = MAX_AGE /\ ~swept.deleted
    /\ HasSession /\ now - Stored.lastActivityAt = MAX_AGE

(***************************************************************************)
(* Claims about events without a session, the client, and the remaining    *)
(* properties of ingestion, search and the session's timestamps.           *)
(***************************************************************************)
\* C31: a text or voice event received on an open channel while the actor holds
\* no session ends with an error event and creates no session: the step that
\* ends its handling appends an error event of that message as the last event
\* of the channel when the channel is still open, never hands the message to
\* the orchestrator, and leaves the storage empty.
C31_NoSessionIsAnError ==
    [][\A k \in TurnIds :
          (~HasSession /\ turn[k].pc \in {"none", "whisper"} /\ turn'[k] # turn[k]) =>
              LET c == turn'[k].conn
              IN  /\ storage' = {}
                  /\ turn'[k].pc \in {"whisper", "done"}
                  /\ (turn'[k].pc = "done" /\ sock[c] = "open") =>
                        /\ Len(out'[c]) > Len(out[c])
                        /\ out'[c][Len(out'[c])].type = "error"
                        /\ out'[c][Len(out'[c])].turn = k
                        /\ \A i \in 1..Len(out'[c]) : out'[c][i].type # "text_response"]_vars

\* A voice message was transcribed and its text met no session: the channel
\* holds its status, its transcription and then the error, and nothing is stored.
C31_Witness ==
    \E k \in TurnIds :
        /\ turn[k].pc = "done" /\ turn[k].via = "voice" /\ storage = {}
        /\ EventsOf(turn[k].conn, k) =
              <<Event("status", k), Event("transcription", k), Event("error", k)>>

\* The reconnect timers that have not fired and were not cleared.
PendingTimers == {t \in 1..Len(timers) : timers[t].pending}
ClosedBelowLimit ==
    {i \in 1..Len(websocket) : websocket[i].state = "closed" /\ websocket[i].n < MAX_RECONNECTS}

\* C32: after the channel closes the client schedules one reconnect after
\* min(1000 * 2^n, 10000) ms, n being the reconnect attempts already made, so
\* delays never decrease and never exceed 10 s; once 5 attempts have been made
\* it schedules no further reconnect and reports an error; at any time at most
\* one reconnect timer is pending.
C32_ReconnectWithBackoff ==
    /\ Len(timers) = Cardinality(ClosedBelowLimit)
    /\ \A t \in 1..Len(timers) :
          /\ timers[t].made < MAX_RECONNECTS
          /\ timers[t].delay = Min(BASE_DELAY * 2^(timers[t].made), MAX_DELAY)
          /\ timers[t].delay <= MAX_DELAY
          /\ \A u \in 1..(t - 1) : timers[u].delay <= timers[t].delay
    /\ reconnectAttempts <= MAX_RECONNECTS
    /\ \A i \in 1..Len(websocket) :
          (websocket[i].state = "closed" /\ websocket[i].n >= MAX_RECONNECTS /\ mounted) =>
              "WebSocket disconnected. Please refresh the page." \in reported
    /\ Cardinality(PendingTimers) <= 1

\* Five reconnects were made, the last after the capped delay, and the sixth
\* connection closed too: the client has reported the error and no timer is set.
C32_Witness ==
    /\ mounted /\ reconnectAttempts = MAX_RECONNECTS
    /\ Len(timers) = MAX_RECONNECTS
    /\ timers[4].delay = 8000 /\ timers[MAX_RECONNECTS].delay = MAX_DELAY
    /\ websocket[Len(websocket)].state = "closed"
    /\ "WebSocket disconnected. Please refresh the page." \in reported
    /\ PendingTimers = {}

\* An answer that clears the loading state can still arrive: a request of the
\* HTTP fallback is out, or an open connection carries an unanswered message.
AnswerCanArrive ==
    \/ http > 0
    \/ \E i \in 1..Len(websocket) :
          websocket[i].state = "open" /\ websocket[i].unanswered > 0

\* C33: every text or voice message the client sends over the realtime channel
\* is followed by the loading state being cleared, whether the turn ends with
\* text_response, with error, or with the connection closing before either
\* arrives: while the loading state is shown, an answer to a message that was
\* sent can still arrive.
C33_LoadingIsCleared == (mounted /\ isLoading) => AnswerCanArrive

\* C34: the background ingestion loop of analyze-repository terminates: the
\* cursor strictly increases on every iteration that continues, it stays below
\* the length of the filtered file list while the loop continues, so that after
\* finitely many ingest calls, at most one more than the batches of 3 the list
\* holds, the loop has seen hasMore = false or a failure and has stopped.
C34_LoopTerminates ==
    /\ [][(ingestCalls' = ingestCalls + 1 /\ lastResult'.hasMore) =>
              startIndex' > startIndex]_vars
    /\ []((ingestCalls > 0 /\ lastResult.hasMore) =>
              /\ startIndex = ingestCalls * DEFAULT_BATCH_SIZE
              /\ startIndex < FilteredCount)
    /\ [](ingestCalls <= FilteredCount \div DEFAULT_BATCH_SIZE + 1)

\* The loop went on after its first call and stopped after its second, which
\* succeeded and returned hasMore = false.
C34_Witness ==
    /\ RunOver /\ ingestCalls = 2
    /\ lastResult.success /\ Len(lastResult.sourceFiles) > 0
    /\ startIndex = DEFAULT_BATCH_SIZE

\* The hits of the search that has run, and the file a hit names.
Hits == searchResult.items
FileOf(hit) == CHOOSE f \in IndexedFiles : f.filePath = hit.filePath
Searched == searchResult # NotSearched

\* C35 as stated: every hit returned by search(query, repoRef, topK) is a record
\* of repository repoRef, at most topK hits are returned, and a hit carries a
\* content preview of bounded length, never the full file.
C35_AsStated ==
    Searched =>
        /\ Len(Hits) <= search.topK
        /\ \A i \in 1..Len(Hits) :
              /\ \E f \in IndexedFiles :
                    f.filePath = Hits[i].filePath /\ f.repoName = search.repoName
              /\ Hits[i].preview <= PREVIEW_LENGTH
              /\ Hits[i].preview < FileOf(Hits[i]).length

\* C35: every hit returned by search(query, repoRef, topK) is a record of
\* repository repoRef, at most topK hits are returned, and a hit carries a
\* content preview of at most 200 characters, which is the full content only
\* of a file that is no longer than that.
C35_HitsOfRepository ==
    Searched =>
        /\ Len(Hits) <= search.topK
        /\ \A i \in 1..Len(Hits) :
              /\ \E f \in IndexedFiles :
                    f.filePath = Hits[i].filePath /\ f.repoName = search.repoName
              /\ Hits[i].preview <= PREVIEW_LENGTH
              /\ (Hits[i].preview < FileOf(Hits[i]).length
                    \/ FileOf(Hits[i]).length <= PREVIEW_LENGTH)

\* A search with topK 1 over a ranking that puts a vector of another repository
\* first and holds two vectors of the repository: the one hit is of the
\* repository and its preview is 200 characters of a longer file.
C35_Witness ==
    /\ Searched /\ search.topK = 1
    /\ Len(search.ranked) >= 3 /\ search.ranked[1].repoName = "o/r2"
    /\ Len(Hits) = 1 /\ Hits[1].filePath = "a.ts" /\ Hits[1].preview = PREVIEW_LENGTH

\* C36: a generator tool whose model output does not parse as the expected JSON
\* shape returns its documented default instead of raising: for a text of the
\* model that is no JSON object with a list of flashcards, generateFlashcards
\* returns the empty list.
C36_ParseFailureFallsBack ==
    (/\ flashcards # NotRun
     /\ aiOutcome.run = "text"
     /\ aiOutcome.content.json # "list") =>
        flashcards = Returned("list", <<>>)

\* The chunks of the file whose embedding succeeded.
EmbeddedChunks == {k \in 0..(storeInput.chunks - 1) : storeInput.embeds[k] = "ok"}

\* C37: within one file's ingestion every stored record has its chunkIndex in
\* 0..totalChunks-1, and no two records of the file share a chunkIndex or an id;
\* a chunk whose embedding fails is passed over without aborting the file and
\* without changing the chunkIndex or the id of the other chunks, so that the
\* records are exactly those of the embedded chunks, each under the index of
\* its place in the file; and all of them are written in a single upsert.
C37_ChunkRecords ==
    storeResult.done =>
        /\ Len(storeResult.upserts) <= 1
        /\ Len(storeResult.upserts) = 1 <=> EmbeddedChunks # {}
        /\ \A u \in 1..Len(storeResult.upserts) :
              LET vectors == storeResult.upserts[u]
              IN  /\ \A a \in 1..Len(vectors) :
                        /\ vectors[a].totalChunks = storeInput.chunks
                        /\ vectors[a].chunkIndex \in 0..(vectors[a].totalChunks - 1)
                        /\ vectors[a].id = VectorId(repoName, "f", vectors[a].chunkIndex)
                  /\ \A a, b \in 1..Len(vectors) :
                        a # b => /\ vectors[a].chunkIndex # vectors[b].chunkIndex
                                 /\ vectors[a].id # vectors[b].id
                  /\ {vectors[a].chunkIndex : a \in 1..Len(vectors)} = EmbeddedChunks
        /\ storeInput.upsert = "ok" =>
              /\ {r.chunkIndex : r \in storeResult.records} = EmbeddedChunks
              /\ storeResult.stored = Cardinality(EmbeddedChunks)
              /\ storeResult.skipped = 0

\* A file of more chunks than one chunk batch, one of whose embeddings failed,
\* has been stored.
C37_Witness ==
    /\ storeResult.done
    /\ storeInput.chunks > CHUNK_BATCH_SIZE
    /\ storeInput.upsert = "ok"
    /\ Cardinality(EmbeddedChunks) = storeInput.chunks - 1
    /\ storeInput.embeds[1] = "throws"
    /\ storeResult.stored = storeInput.chunks - 1

\* C38: handleUpdate and every completed turn set lastActivityAt to the current
\* time, whatever fields the update carries: along any sequence of operations
\* on a session lastActivityAt never decreases and is never earlier than
\* createdAt.
C38_ActivityOnlyAdvances ==
    /\ [](HasSession => Stored.createdAt <= Stored.lastActivityAt)
    /\ [][(HasSession /\ HasSession') =>
              Stored'.lastActivityAt >= Stored.lastActivityAt]_vars
    /\ [][(storage' # storage /\ HasSession') => Stored'.lastActivityAt = now]_vars

\* After the clock advanced, the session holds an update that carried older
\* timestamps and the messages of a turn that ended after it.
C38_Witness ==
    /\ HasSession
    /\ Stored.goal = "g2"
    /\ Len(Stored.messages) > 0
    /\ Stored.lastActivityAt > 0

\* The slice a retry of the failed call works on, when it starts at the
\* nextIndex the failure returned and its listing succeeds.
RetrySlice ==
    slice(allSourceFiles(tree, MAX_REPO_FILES), lastResult.nextIndex,
          lastResult.nextIndex + call.batchSize)

\* C39: an ingest call that fails as a whole reports the failure with all stats
\* at zero and with nextIndex equal to the startIndex it was given, and it has
\* written nothing to the index; a retry from that nextIndex works on the slice
\* the failed call was asked for, so that the failure skips no file.
C39_FailureKeepsCursor ==
    /\ []((ingestCalls > 0 /\ ~lastResult.success) =>
              /\ lastResult.stats = IngestStats(0, 0, 0)
              /\ lastResult.nextIndex = call.start
              /\ ~lastResult.hasMore
              /\ resp.status = 500
              /\ RetrySlice = slice(allSourceFiles(tree, MAX_REPO_FILES), call.start,
                                    call.start + call.batchSize))
    /\ [][(ingestCalls' = ingestCalls + 1 /\ ~lastResult'.success) =>
              (index' = index /\ upserts' = upserts)]_vars

\* A call for a batch that holds a file, from a cursor past the first file, has
\* failed as a whole.
C39_Witness ==
    /\ ingestCalls > 0
    /\ ~lastResult.success
    /\ call.start > 0
    /\ call.batchSize > 0
    /\ RetrySlice # <<>>

==========================================================================
